---------------------------- MODULE Spec2Model ----------------------------
(***************************************************************************)
(* A model of the timing and scheduling core of loom: the Timeline's       *)
(* per-track position index (src/model/timeline.rs) and the PlaybackEngine *)
(* with its playback thread, the project and output-registry locks and the *)
(* control context (src/engine/playback.rs, src/controller/mod.rs).        *)
(***************************************************************************)
EXTENDS Integers, Sequences, FiniteSets, TLC

(***************************************************************************)
(* Bounds of the model.                                                    *)
(***************************************************************************)
\* Timeline positions (ticks) range over 0..MaxPos; range queries take
\* their bounds from 0..MaxPos+1.
MaxPos == 2
\* Container lengths (ticks) range over 0..MaxLen.
MaxLen == 2
\* add_container is called at most MaxAdds times.
MaxAdds == 2
\* The playback thread reads its clock at quarter-second marks, up to
\* MaxStep of them.
MaxStep == 3
\* Slots for playback threads: play() spawns into the first free one.
MaxThreads == 2
\* While the engine runs, the project gains at most MaxProjectAdds containers.
MaxProjectAdds == 1
\* schedule_event is called at most MaxScheduled times between two clears.
MaxScheduled == 3
\* The tempo map takes at most MaxTempoCalls changes.
MaxTempoCalls == 2

\* Identifiers are opaque Uuid values.  TrackId::new and ContainerId::new
\* draw a fresh one: the first of these not in use yet.  StrayTrackId is a
\* TrackId that no Track of the timeline carries.
TrackIdOrder == <<"t1", "t2">>
ContainerIdOrder == <<"c1", "c2">>
StrayTrackId == "t0"

TrackIds == {TrackIdOrder[i] : i \in 1..Len(TrackIdOrder)}
ContainerIds == {ContainerIdOrder[i] : i \in 1..Len(ContainerIdOrder)}

Positions == 0..MaxPos
RangeBounds == 0..(MaxPos + 1)
Lengths == 0..MaxLen

VARIABLES
    tracks,            \* Timeline.tracks: Vec<Track>, as the sequence of track ids
    containers,        \* Timeline.containers: ContainerId -> MediaContainer
    track_containers,  \* Timeline.track_containers: TrackId -> (TimePosition -> ContainerId)
    adds,              \* the number of add_container calls so far
    outcome,           \* the call that has just returned a value: arguments and result
    playing,           \* PlaybackEngine.playing: the shared AtomicBool
    playback_thread,   \* PlaybackEngine.playback_thread: Option<JoinHandle>
    clock_source,      \* PlaybackEngine.clock_source
    thr,               \* the playback threads: program counter and locals of each
    proj_readers,      \* the threads holding a read guard of the project RwLock
    out_lock,          \* the holder of the write guard of the OutputSystem RwLock
    received,          \* what reached the OutputSystem since the running dispatch began
    ctl,               \* the control context: the engine call in progress
    caller,            \* a context that issues OutputSystem operations of its own
    stop_returned,     \* stop() has returned and play() has not been called since
    scheduled_events,  \* EventScheduler.scheduled_events: TimePosition -> Vec<OutputEvent>
    schedule_calls,    \* the schedule_event calls since new() or clear(), in call order
    tempo_changes,     \* TempoMap.tempo_changes: TimePosition -> Tempo (bpm)
    time_signature_changes,  \* TempoMap.time_signature_changes: TimePosition -> TimeSignature
    tempo_calls,       \* the add_*_change calls made on the tempo map, in call order
    endpoints,         \* OutputSystem.endpoints: EndpointId -> MidiOutputEndpoint
    command_queue,     \* the commands sent to the controller and not yet received
    senders_open,      \* a CommandSender of the command channel is still alive
    running,           \* Controller.running
    control_loop,      \* where Controller::run is: "new", "loop" or "exited"
    handled,           \* the commands handle_command has been called with, in order
    receivers,         \* EventHub.receivers: Vec<EventSender>, as the observers' ids
    inbox,             \* the events in each observer's channel, in arrival order
    rx_open,           \* the observer still holds its EventReceiver
    dispatched,        \* the events EventHub::dispatch has been called with, in order
    active_timeline    \* Project.active_timeline() is Some

timelineVars == <<tracks, containers, track_containers, adds, outcome>>

engineVars == <<playing, playback_thread, clock_source, thr, proj_readers,
                out_lock, received, ctl, caller, stop_returned>>

schedulerVars == <<scheduled_events, schedule_calls>>

tempoVars == <<tempo_changes, time_signature_changes, tempo_calls>>

outputVars == <<endpoints>>

controllerVars == <<command_queue, senders_open, running, control_loop, handled,
                    receivers, inbox, rx_open, dispatched, active_timeline>>

vars == <<tracks, containers, track_containers, adds, outcome,
          playing, playback_thread, clock_source, thr, proj_readers,
          out_lock, received, ctl, caller, stop_returned,
          scheduled_events, schedule_calls,
          tempo_changes, time_signature_changes, tempo_calls,
          endpoints,
          command_queue, senders_open, running, control_loop, handled,
          receivers, inbox, rx_open, dispatched, active_timeline>>

(***************************************************************************)
(* Helpers on ordered maps (BTreeMap).                                     *)
(***************************************************************************)
Min(S) == CHOOSE x \in S : \A y \in S : x <= y

\* The elements of a finite set of integers in ascending order: the order
\* in which a BTreeMap iterates its keys.
RECURSIVE Ascending(_)
Ascending(S) == IF S = {} THEN <<>> ELSE <<Min(S)>> \o Ascending(S \ {Min(S)})

\* map.insert(k, v): adds the key or overwrites the value stored under it.
MapInsert(m, k, v) == [x \in (DOMAIN m) \cup {k} |-> IF x = k THEN v ELSE m[x]]

\* map.remove(k)
MapRemove(m, k) == [x \in (DOMAIN m) \ {k} |-> m[x]]

EmptyMap == [x \in {} |-> x]

(***************************************************************************)
(* MediaContainer: the fields the Timeline reads.  `track` is a history    *)
(* field: the track_id the container was handed to add_container with      *)
(* (the code stores no track in the container).                            *)
(***************************************************************************)
MediaContainer(pos, len, tid) == [position |-> pos, length |-> len, track |-> tid]

(***************************************************************************)
(* TrackId::new / ContainerId::new: a Uuid not in use yet.                 *)
(***************************************************************************)
FreshTrackIds(ts) ==
    IF Len(ts) < Len(TrackIdOrder) THEN {TrackIdOrder[Len(ts) + 1]} ELSE {}

FreshContainerIds(cs) ==
    LET n == Cardinality(DOMAIN cs)
    IN  IF n < Len(ContainerIdOrder) THEN {ContainerIdOrder[n + 1]} ELSE {}

Idle == [op |-> "idle"]

(***************************************************************************)
(* Timeline::new                                                           *)
(***************************************************************************)
TimelineInit ==
    /\ tracks = <<>>
    /\ containers = EmptyMap
    /\ track_containers = EmptyMap
    /\ adds = 0
    /\ outcome = Idle

(***************************************************************************)
(* Timeline::add_track: push the track and insert an empty index under its *)
(* id.                                                                     *)
(***************************************************************************)
add_track(tid) ==
    /\ tracks' = Append(tracks, tid)
    /\ track_containers' = MapInsert(track_containers, tid, EmptyMap)
    /\ UNCHANGED <<containers, adds, outcome>>

(***************************************************************************)
(* Timeline::add_container: store the container under its id, then, when   *)
(* the track has an index, insert position -> id into it.                  *)
(***************************************************************************)
\* A variant that indexes the container without storing it.
StoreContainerSkipped(cs, cid, c) == cs

StoreContainer(cs, cid, c) == MapInsert(cs, cid, c)

IndexAfterAdd(tc, tid, pos, cid) ==
    IF tid \in DOMAIN tc
        THEN [tc EXCEPT ![tid] = MapInsert(tc[tid], pos, cid)]
        ELSE tc

add_container(tid, cid, pos, len) ==
    /\ containers' = StoreContainer(containers, cid, MediaContainer(pos, len, tid))
    /\ track_containers' = IndexAfterAdd(track_containers, tid, pos, cid)
    /\ adds' = adds + 1
    /\ UNCHANGED <<tracks, outcome>>

(***************************************************************************)
(* Timeline::move_container.  The scan visits the tracks in HashMap order  *)
(* (any order) and each index in key order, and stops at the first entry   *)
(* holding the id: any track whose index holds the id may be the one       *)
(* found, with the least such key of that index.                           *)
(***************************************************************************)
KeysOf(m, cid) == {p \in DOMAIN m : m[p] = cid}

TracksHolding(tc, cid) == {t \in DOMAIN tc : KeysOf(tc[t], cid) # {}}

\* A variant that inserts the new key and leaves the old one in place.
MovedIndexKeepsOld(m, old_pos, new_pos, cid) == MapInsert(m, new_pos, cid)

\* The track's index after the move: old key removed, new key inserted.
MovedIndex(m, old_pos, new_pos, cid) == MapInsert(MapRemove(m, old_pos), new_pos, cid)

NotFound(cid, new_position) ==
    [op |-> "move_container", id |-> cid, position |-> new_position, ret |-> FALSE]

move_container(cid, new_position) ==
    \/ /\ TracksHolding(track_containers, cid) = {}
       /\ outcome' = NotFound(cid, new_position)
       /\ UNCHANGED <<tracks, containers, track_containers, adds>>
    \/ \E tid \in TracksHolding(track_containers, cid) :
          LET old_pos == Min(KeysOf(track_containers[tid], cid)) IN
          IF cid \in DOMAIN containers
             THEN /\ containers' = [containers EXCEPT ![cid].position = new_position]
                  /\ track_containers' =
                        [track_containers EXCEPT
                            ![tid] = MovedIndex(@, old_pos, new_position, cid)]
                  /\ outcome' = [op |-> "move_container", id |-> cid,
                                 position |-> new_position, ret |-> TRUE,
                                 track |-> tid, old_position |-> old_pos]
                  /\ UNCHANGED <<tracks, adds>>
             ELSE /\ outcome' = NotFound(cid, new_position)
                  /\ UNCHANGED <<tracks, containers, track_containers, adds>>

(***************************************************************************)
(* Timeline::track_containers_in_range.  BTreeMap::range(start..end)       *)
(* panics when start > end.  The result lists first the containers         *)
(* whose key lies in [start, end), in key order, then those with a key     *)
(* below start whose position + length exceeds start, in key order.        *)
(* Tick counts here stay far below 2^64, so position + length is exact.    *)
(***************************************************************************)
ExtendsInto(c, start) == c.position + c.length > start

\* A variant that takes the end of the range in.
StartsInRangeClosed(k, start, end) == start <= k /\ k <= end

StartsInRange(k, start, end) == start <= k /\ k < end

TrackContainersInRange(tc, cs, tid, start, end) ==
    IF tid \notin DOMAIN tc THEN [panicked |-> FALSE, result |-> <<>>]
    ELSE IF start > end THEN [panicked |-> TRUE, result |-> <<>>]
    ELSE LET m == tc[tid]
             inKeys == Ascending({k \in DOMAIN m : StartsInRange(k, start, end)})
             beforeKeys == Ascending({k \in DOMAIN m : k < start})
             Stored(k) == m[k] \in DOMAIN cs
             first == SelectSeq(inKeys, Stored)
             Overlaps(k) == Stored(k) /\ ExtendsInto(cs[m[k]], start)
             second == SelectSeq(beforeKeys, Overlaps)
             picked == first \o second
         IN  [panicked |-> FALSE,
              result |-> [i \in 1..Len(picked) |-> m[picked[i]]]]

track_containers_in_range(tid, start, end) ==
    /\ outcome' = [op |-> "track_containers_in_range", track |-> tid,
                   start |-> start, end |-> end,
                   ret |-> TrackContainersInRange(track_containers, containers,
                                                  tid, start, end)]
    /\ UNCHANGED <<tracks, containers, track_containers, adds>>

(***************************************************************************)
(* The Timeline driven by an arbitrary caller, one call at a time: a call  *)
(* that returns a value leaves it in `outcome` until the caller drops it.  *)
(***************************************************************************)
\* The ids of the tracks pushed so far.
KnownTrackIds == {tracks[i] : i \in 1..Len(tracks)}

AddTrack ==
    /\ outcome = Idle
    /\ \E tid \in FreshTrackIds(tracks) : add_track(tid)
    /\ UNCHANGED <<engineVars, schedulerVars, tempoVars, outputVars, controllerVars>>

AddContainer ==
    /\ outcome = Idle
    /\ adds < MaxAdds
    /\ \E tid \in KnownTrackIds \cup {StrayTrackId},
          cid \in DOMAIN containers \cup FreshContainerIds(containers),
          pos \in Positions, len \in Lengths :
            add_container(tid, cid, pos, len)
    /\ UNCHANGED <<engineVars, schedulerVars, tempoVars, outputVars, controllerVars>>

MoveContainer ==
    /\ outcome = Idle
    /\ \E cid \in ContainerIds, pos \in Positions : move_container(cid, pos)
    /\ UNCHANGED <<engineVars, schedulerVars, tempoVars, outputVars, controllerVars>>

QueryRange ==
    /\ outcome = Idle
    /\ \E tid \in KnownTrackIds \cup {StrayTrackId},
          start \in RangeBounds, end \in RangeBounds :
          track_containers_in_range(tid, start, end)
    /\ UNCHANGED <<engineVars, schedulerVars, tempoVars, outputVars, controllerVars>>

DropResult ==
    /\ outcome # Idle
    /\ outcome' = Idle
    /\ UNCHANGED <<tracks, containers, track_containers, adds>>
    /\ UNCHANGED <<engineVars, schedulerVars, tempoVars, outputVars, controllerVars>>

(***************************************************************************)
(* Musical time of the project.  Project::new builds TempoMap::new(44100,  *)
(* 44100) with 120 BPM at position zero; ProjectSettings carries the same  *)
(* reference sample rate.                                                  *)
(***************************************************************************)
ReferenceSampleRate == 44100
DefaultBpm == 120
SecondsPerMinute == 60

\* Project.tempo_map.tempo_changes: position -> BPM
ProjectTempoMap == [p \in {0} |-> DefaultBpm]

Max(S) == CHOOSE x \in S : \A y \in S : x >= y

\* TempoMap::tempo_at: the last change at or before the position.
TempoAt(tm, pos) == tm[Max({p \in DOMAIN tm : p <= pos})]

\* TempoMap::position_to_beats, as the exact number of beats scaled by
\* SecondsPerMinute * ReferenceSampleRate: each segment of constant tempo
\* adds ticks * bpm.  The walk visits the changes in 0..=position in key
\* order and closes with the segment up to the position.
\* segment_duration_secs / beat_duration_secs, scaled: (ticks / rate) /
\* (60 / bpm) times 60 * rate.  A variant counts every segment at the
\* default tempo.
SegmentShareFlat(ticks, tempo) == ticks * DefaultBpm

SegmentShare(ticks, tempo) == ticks * tempo

RECURSIVE SegmentBeats(_, _, _, _, _, _)
SegmentBeats(tm, changes, pos, last_position, last_tempo, result) ==
    IF changes = <<>>
        THEN IF pos > last_position
                THEN result + SegmentShare(pos - last_position, last_tempo)
                ELSE result
        ELSE LET change_position == Head(changes) IN
             IF change_position > last_position
                THEN SegmentBeats(tm, Tail(changes), pos, change_position,
                                  tm[change_position],
                                  result + SegmentShare(change_position - last_position,
                                                        last_tempo))
                ELSE SegmentBeats(tm, Tail(changes), pos, last_position,
                                  last_tempo, result)

PositionToBeatsScaled(tm, pos) ==
    SegmentBeats(tm, Ascending({p \in DOMAIN tm : p <= pos}), pos, 0, TempoAt(tm, 0), 0)

\* position_to_beats(position).floor()
BeatFloor(tm, pos) ==
    PositionToBeatsScaled(tm, pos) \div (SecondsPerMinute * ReferenceSampleRate)

(***************************************************************************)
(* The clock of the playback thread.  start_time.elapsed() is monotonic;   *)
(* TimePosition::from_seconds turns it into ticks.  The model reads the    *)
(* clock at quarter-second marks, where seconds * rate is a whole number.  *)
(***************************************************************************)
TickStep == ReferenceSampleRate \div 4

SamplePositions == {k * TickStep : k \in 0..MaxStep}

(***************************************************************************)
(* The beat pulse: note = 60 + ((beat as u8) % 12), a note-on with         *)
(* velocity 100 on channel 0 followed by the note-off.  `as u8` truncates  *)
(* the float and saturates at 255.                                         *)
(***************************************************************************)
PulseBase == 60
PulseSpan == 12
PulseVelocity == 100
PulseChannel == 0
U8Max == 255

AsU8(n) == IF n > U8Max THEN U8Max ELSE n

PulseNote(beat) == PulseBase + (AsU8(beat) % PulseSpan)

midi_note_on(channel, note, velocity) ==
    [type |-> "MidiNoteOn", channel |-> channel, note |-> note, velocity |-> velocity]

midi_note_off(channel, note) ==
    [type |-> "MidiNoteOff", channel |-> channel, note |-> note]

PulseEvents(note) ==
    <<midi_note_on(PulseChannel, note, PulseVelocity),
      midi_note_off(PulseChannel, note)>>

\* The test tone of one iteration over the window last_position..current_position.
BeatPulse(tm, last_position, current_position) ==
    IF BeatFloor(tm, current_position) > BeatFloor(tm, last_position)
        THEN PulseEvents(PulseNote(BeatFloor(tm, current_position)))
        ELSE <<>>

(***************************************************************************)
(* Timeline::containers_in_range: the union of the per-track results, the  *)
(* tracks visited in HashMap order.  The playback loop only asks whether   *)
(* it is empty, so the model keeps the set.                                *)
(***************************************************************************)
ContainersInRange(tc, cs, start, end) ==
    LET per(t) == TrackContainersInRange(tc, cs, t, start, end)
    IN  [panicked |-> \E t \in DOMAIN tc : per(t).panicked,
         result |-> UNION {{per(t).result[i] : i \in 1..Len(per(t).result)} :
                              t \in DOMAIN tc}]

(***************************************************************************)
(* PlaybackEngine::new, the locks and the contexts around it.              *)
(***************************************************************************)
ThreadIds == 1..MaxThreads
NoThread == 0
\* The holders of a lock guard, and the senders of an event.
Free == [kind |-> "free", id |-> NoThread]
ByThread(t) == [kind |-> "thread", id |-> t]
ByCaller == [kind |-> "caller", id |-> NoThread]
ClockSources == {"InternalClock", "MidiTimeCode"}

\* The locals of a playback thread that does not run.
Parked(pc) ==
    [pc |-> pc, last_position |-> 0, current_position |-> 0,
     events |-> <<>>, sent |-> 0]

CtlIdle ==
    [pc |-> "idle", op |-> "none", handle |-> NoThread, source |-> "none",
     position |-> 0]

\* A call that has returned; `handle` names the thread it spawned or joined.
CtlReturned(op, handle) ==
    [pc |-> "returned", op |-> op, handle |-> handle, source |-> "none",
     position |-> 0]

EngineInit ==
    /\ playing = FALSE
    /\ playback_thread = NoThread
    /\ clock_source = "InternalClock"
    /\ thr = [t \in ThreadIds |-> Parked("none")]
    /\ proj_readers = {}
    /\ out_lock = Free
    /\ received = <<>>
    /\ ctl = CtlIdle
    /\ caller = "idle"
    /\ stop_returned = FALSE

\* The threads that have been spawned and have not finished.
Live == {t \in ThreadIds : thr[t].pc \notin {"none", "done", "panicked"}}

\* The threads inside the dispatch block, holding the output write guard.
Dispatching == {t \in ThreadIds : thr[t].pc = "dispatch"}

\* RwLock::write on the OutputSystem: granted when nobody holds the lock.
\* A variant grants it at any time.
CanWriteLockAlways(holder) == TRUE

CanWriteLock(holder) == holder = Free

(***************************************************************************)
(* PlaybackEngine::play: a no-op while playing; otherwise set the flag and *)
(* spawn the playback thread with last_position = 0.                       *)
(***************************************************************************)
\* A variant that never takes the early return.
AlreadyPlayingIgnored(flag) == FALSE

AlreadyPlaying(flag) == flag

FreeSlots == {t \in ThreadIds : thr[t].pc = "none"}

play ==
    IF AlreadyPlaying(playing)
        THEN UNCHANGED <<playing, playback_thread, thr>>
        ELSE /\ playing' = TRUE
             /\ FreeSlots # {}
             /\ LET t == Min(FreeSlots) IN
                   /\ thr' = [thr EXCEPT ![t] = Parked("check")]
                   /\ playback_thread' = t

Play ==
    /\ ctl.pc = "idle"
    /\ play
    /\ stop_returned' = FALSE
    /\ ctl' = CtlReturned("play", IF AlreadyPlaying(playing)
                                     THEN NoThread ELSE playback_thread')
    /\ UNCHANGED <<clock_source, proj_readers, out_lock, received, caller>>
    /\ UNCHANGED <<timelineVars, schedulerVars, tempoVars, outputVars, controllerVars>>

(***************************************************************************)
(* PlaybackEngine::stop: a no-op while not playing; otherwise clear the    *)
(* flag, take the handle and join the thread.  set_clock_source calls      *)
(* stop() when playing and then installs the source.  The first step runs  *)
(* up to the join, the second is the join returning.                       *)
(***************************************************************************)
\* self.clock_source = clock_source, the last statement of set_clock_source;
\* stop() leaves the clock source alone.  A variant never installs it.
InstalledSourceKept(op, source, current) == current

InstalledSource(op, source, current) ==
    IF op = "set_clock_source" THEN source ELSE current

StopCall(op, source) ==
    IF ~playing
        THEN /\ ctl' = [CtlReturned(op, NoThread) EXCEPT !.source = source]
             /\ clock_source' = InstalledSource(op, source, clock_source)
             /\ stop_returned' = IF op = "stop" THEN TRUE ELSE stop_returned
             /\ UNCHANGED <<playing, playback_thread>>
        ELSE /\ playing' = FALSE
             /\ playback_thread' = NoThread
             /\ IF playback_thread # NoThread
                   THEN /\ ctl' = [pc |-> "join", op |-> op,
                                   handle |-> playback_thread, source |-> source,
                                   position |-> 0]
                        /\ UNCHANGED <<clock_source, stop_returned>>
                   ELSE /\ ctl' = [CtlReturned(op, NoThread) EXCEPT !.source = source]
                        /\ clock_source' = InstalledSource(op, source, clock_source)
                        /\ stop_returned' = TRUE

Stop ==
    /\ ctl.pc = "idle"
    /\ StopCall("stop", "none")
    /\ UNCHANGED <<thr, proj_readers, out_lock, received, caller>>
    /\ UNCHANGED <<timelineVars, schedulerVars, tempoVars, outputVars, controllerVars>>

SetClockSource ==
    /\ ctl.pc = "idle"
    /\ \E source \in ClockSources : StopCall("set_clock_source", source)
    /\ UNCHANGED <<thr, proj_readers, out_lock, received, caller>>
    /\ UNCHANGED <<timelineVars, schedulerVars, tempoVars, outputVars, controllerVars>>

\* thread.join() returns once the thread has finished, by leaving its loop
\* or by a panic.  A variant returns without waiting.
Finished(th) == th.pc \in {"done", "panicked"}

JoinReadyAlways(th) == TRUE

JoinReady(th) == Finished(th)

Join ==
    /\ ctl.pc = "join"
    /\ JoinReady(thr[ctl.handle])
    /\ thr' = [thr EXCEPT ![ctl.handle] =
                  IF Finished(@) THEN Parked("none") ELSE @]
    /\ clock_source' = InstalledSource(ctl.op, ctl.source, clock_source)
    /\ stop_returned' = TRUE
    /\ ctl' = [CtlReturned(ctl.op, ctl.handle) EXCEPT !.source = ctl.source]
    /\ UNCHANGED <<playing, playback_thread, proj_readers, out_lock, received, caller>>
    /\ UNCHANGED <<timelineVars, schedulerVars, tempoVars, outputVars, controllerVars>>

(***************************************************************************)
(* PlaybackEngine::seek: an empty body; the position it was given is kept  *)
(* with the call until the caller has its return.                          *)
(***************************************************************************)
\* The positions sought: the first two clock marks after the start.
SeekPositions == {TickStep, 2 * TickStep}

Seek ==
    /\ ctl.pc = "idle"
    /\ \E position \in SeekPositions :
          ctl' = [CtlReturned("seek", NoThread) EXCEPT !.position = position]
    /\ UNCHANGED <<playing, playback_thread, clock_source, thr, proj_readers,
                   out_lock, received, caller, stop_returned>>
    /\ UNCHANGED <<timelineVars, schedulerVars, tempoVars, outputVars, controllerVars>>

\* The engine call has returned to its caller.
Return ==
    /\ ctl.pc = "returned"
    /\ ctl' = CtlIdle
    /\ UNCHANGED <<playing, playback_thread, clock_source, thr, proj_readers,
                   out_lock, received, caller, stop_returned>>
    /\ UNCHANGED <<timelineVars, schedulerVars, tempoVars, outputVars, controllerVars>>

(***************************************************************************)
(* The playback thread, one step per statement that another context can    *)
(* observe or delay.                                                       *)
(***************************************************************************)
\* while playing.load(): the loop goes on while the flag is set.  A variant
\* never looks at the flag.
LoopContinuesAlways(flag) == TRUE

LoopContinues(flag) == flag

\* The loop test and the clock reading: elapsed time never runs backwards.
ThreadCheck(t) ==
    /\ thr[t].pc = "check"
    /\ IF LoopContinues(playing)
          THEN \E pos \in SamplePositions :
                  /\ pos >= thr[t].last_position
                  /\ thr' = [thr EXCEPT ![t].pc = "read_project",
                                        ![t].current_position = pos]
          ELSE thr' = [thr EXCEPT ![t] = Parked("done")]
    /\ UNCHANGED <<playing, playback_thread, clock_source, proj_readers,
                   out_lock, received, ctl, caller, stop_returned>>
    /\ UNCHANGED <<timelineVars, schedulerVars, tempoVars, outputVars, controllerVars>>

\* The control context is inside the write-lock scope of
\* handle_move_container, between two writes of Timeline::move_container.
MoveStages == {"move_store", "move_remove", "move_insert"}

Moving == ctl.pc \in MoveStages

\* RwLock::read on the project: granted when no writer holds the lock.  A
\* variant grants it at any time.
CanReadProjectAlways(writing) == TRUE

CanReadProject(writing) == ~writing

\* project.read(): the other writers of the project hold their guard
\* within one step, so only a move under way makes the thread wait.
ThreadReadProject(t) ==
    /\ thr[t].pc = "read_project"
    /\ CanReadProject(Moving)
    /\ proj_readers' = proj_readers \cup {t}
    /\ thr' = [thr EXCEPT ![t].pc = "publish"]
    /\ UNCHANGED <<playing, playback_thread, clock_source,
                   out_lock, received, ctl, caller, stop_returned>>
    /\ UNCHANGED <<timelineVars, schedulerVars, tempoVars, outputVars, controllerVars>>

\* event_sender.send(PlaybackPositionChanged { position })
ThreadPublish(t) ==
    /\ thr[t].pc = "publish"
    /\ thr' = [thr EXCEPT ![t].pc = "generate"]
    /\ UNCHANGED <<playing, playback_thread, clock_source, proj_readers,
                   out_lock, received, ctl, caller, stop_returned>>
    /\ UNCHANGED <<timelineVars, schedulerVars, tempoVars, outputVars, controllerVars>>

\* drop(project_guard), or the unwinding of a panic under the guard.  A
\* variant keeps the guard.
DropGuardKept(readers, t) == readers

DropGuard(readers, t) == readers \ {t}

\* The events of the iteration.  Every container of the window runs into
\* todo!(): the thread panics, the unwinding drops the read guard.  With no
\* container the events are the beat pulse or nothing, and the guard is
\* dropped before the dispatch.
ThreadGenerate(t) ==
    /\ thr[t].pc = "generate"
    /\ LET found == ContainersInRange(track_containers, containers,
                                      thr[t].last_position, thr[t].current_position)
       IN  IF found.panicked \/ found.result # {}
              THEN thr' = [thr EXCEPT ![t] = Parked("panicked")]
              ELSE thr' = [thr EXCEPT
                              ![t].pc = "lock_output",
                              ![t].events = BeatPulse(tempo_changes,
                                                      thr[t].last_position,
                                                      thr[t].current_position)]
    /\ proj_readers' = DropGuard(proj_readers, t)
    /\ UNCHANGED <<playing, playback_thread, clock_source,
                   out_lock, received, ctl, caller, stop_returned>>
    /\ UNCHANGED <<timelineVars, schedulerVars, tempoVars, outputVars, controllerVars>>

\* output_system.write()
ThreadLockOutput(t) ==
    /\ thr[t].pc = "lock_output"
    /\ CanWriteLock(out_lock)
    /\ out_lock' = ByThread(t)
    /\ received' = <<>>
    /\ thr' = [thr EXCEPT ![t].pc = "dispatch", ![t].sent = 0]
    /\ UNCHANGED <<playing, playback_thread, clock_source, proj_readers,
                   ctl, caller, stop_returned>>
    /\ UNCHANGED <<timelineVars, schedulerVars, tempoVars, outputVars, controllerVars>>

\* output_guard.send_event(&event) for the next event of the iteration.
ThreadSend(t) ==
    /\ thr[t].pc = "dispatch"
    /\ thr[t].sent < Len(thr[t].events)
    /\ received' = Append(received, [from |-> ByThread(t), event |-> thr[t].events[thr[t].sent + 1]])
    /\ thr' = [thr EXCEPT ![t].sent = @ + 1]
    /\ UNCHANGED <<playing, playback_thread, clock_source, proj_readers,
                   out_lock, ctl, caller, stop_returned>>
    /\ UNCHANGED <<timelineVars, schedulerVars, tempoVars, outputVars, controllerVars>>

\* last_position = current_position, the start of the next window.  A
\* variant leaves last_position where it was.
NextWindowStartKept(th) == th.last_position

NextWindowStart(th) == th.current_position

\* The end of the dispatch block drops the write guard; then
\* last_position = current_position.
ThreadUnlockOutput(t) ==
    /\ thr[t].pc = "dispatch"
    /\ thr[t].sent = Len(thr[t].events)
    /\ out_lock' = Free
    /\ received' = <<>>
    /\ thr' = [thr EXCEPT ![t].pc = "sleep",
                          ![t].last_position = NextWindowStart(thr[t]),
                          ![t].events = <<>>, ![t].sent = 0]
    /\ UNCHANGED <<playing, playback_thread, clock_source, proj_readers,
                   ctl, caller, stop_returned>>
    /\ UNCHANGED <<timelineVars, schedulerVars, tempoVars, outputVars, controllerVars>>

\* thread::sleep(1 ms)
ThreadSleep(t) ==
    /\ thr[t].pc = "sleep"
    /\ thr' = [thr EXCEPT ![t].pc = "check"]
    /\ UNCHANGED <<playing, playback_thread, clock_source, proj_readers,
                   out_lock, received, ctl, caller, stop_returned>>
    /\ UNCHANGED <<timelineVars, schedulerVars, tempoVars, outputVars, controllerVars>>

(***************************************************************************)
(* A context that uses the OutputSystem itself: it takes the write guard,  *)
(* sends an event to an endpoint and drops the guard.  `received` keeps    *)
(* its event when a playback dispatch is under way.                        *)
(***************************************************************************)
CallerEvent == [type |-> "MidiControlChange", channel |-> 0, note |-> 0]

CallerLock ==
    /\ caller = "idle"
    /\ CanWriteLock(out_lock)
    /\ out_lock' = ByCaller
    /\ caller' = "locked"
    /\ UNCHANGED <<playing, playback_thread, clock_source, thr, proj_readers,
                   received, ctl, stop_returned>>
    /\ UNCHANGED <<timelineVars, schedulerVars, tempoVars, outputVars, controllerVars>>

CallerSend ==
    /\ caller = "locked"
    /\ caller' = "sent"
    /\ received' = IF Dispatching # {}
                      THEN Append(received, [from |-> ByCaller, event |-> CallerEvent])
                      ELSE received
    /\ UNCHANGED <<playing, playback_thread, clock_source, thr, proj_readers,
                   out_lock, ctl, stop_returned>>
    /\ UNCHANGED <<timelineVars, schedulerVars, tempoVars, outputVars, controllerVars>>

CallerUnlock ==
    /\ caller = "sent"
    /\ caller' = "idle"
    /\ out_lock' = Free
    /\ UNCHANGED <<playing, playback_thread, clock_source, thr, proj_readers,
                   received, ctl, stop_returned>>
    /\ UNCHANGED <<timelineVars, schedulerVars, tempoVars, outputVars, controllerVars>>

(***************************************************************************)
(* Writers of the project: project.write() waits until no read guard is    *)
(* held, and the timeline changes under the write guard.                   *)
(***************************************************************************)
ProjectAddTrack ==
    /\ proj_readers = {}
    /\ ~Moving
    /\ \E tid \in FreshTrackIds(tracks) : add_track(tid)
    /\ UNCHANGED <<engineVars, schedulerVars, tempoVars, outputVars, controllerVars>>

\* A beat of the default tempo in ticks.
TicksPerBeat == (SecondsPerMinute * ReferenceSampleRate) \div DefaultBpm

\* The containers start on a clock mark and are four beats long, so that
\* one can lie ahead of a playback window, start inside it or reach into it.
ProjectContainerLength == 4 * TicksPerBeat

ProjectAddContainer ==
    /\ proj_readers = {}
    /\ ~Moving
    /\ adds < MaxProjectAdds
    /\ \E tid \in KnownTrackIds, cid \in FreshContainerIds(containers),
          pos \in SamplePositions :
            add_container(tid, cid, pos, ProjectContainerLength)
    /\ UNCHANGED <<engineVars, schedulerVars, tempoVars, outputVars, controllerVars>>

(***************************************************************************)
(* EventScheduler: an ordered map from positions to the events due there.  *)
(* schedule_calls is a history variable, the calls in the order they were  *)
(* made.                                                                   *)
(***************************************************************************)
SchedulerInit ==
    /\ scheduled_events = EmptyMap
    /\ schedule_calls = <<>>

\* The events a producer schedules.
ScheduledEvents == {midi_note_on(PulseChannel, PulseBase, PulseVelocity),
                    midi_note_off(PulseChannel, PulseBase)}

\* Vec::push appends.  A variant puts the event in front.
PushEventFront(events, event) == <<event>> \o events

PushEvent(events, event) == Append(events, event)

\* entry(position).or_insert_with(Vec::new).push(event)
schedule_event(position, event) ==
    /\ scheduled_events' =
          MapInsert(scheduled_events, position,
                    PushEvent(IF position \in DOMAIN scheduled_events
                                 THEN scheduled_events[position] ELSE <<>>,
                              event))
    /\ schedule_calls' = Append(schedule_calls, [position |-> position, event |-> event])

\* The (position, event) pairs of the keys given in order, each key's
\* events in the order of its Vec.
RECURSIVE FlattenEvents(_, _)
FlattenEvents(se, keys) ==
    IF keys = <<>> THEN <<>>
    ELSE [i \in 1..Len(se[Head(keys)]) |->
             [position |-> Head(keys), event |-> se[Head(keys)][i]]]
         \o FlattenEvents(se, Tail(keys))

\* EventScheduler::get_events: BTreeMap::range(start..end) panics when
\* start > end.
GetEvents(se, start, end) ==
    IF start > end THEN [panicked |-> TRUE, result |-> <<>>]
    ELSE [panicked |-> FALSE,
          result |-> FlattenEvents(se, Ascending({k \in DOMAIN se :
                                                     StartsInRange(k, start, end)}))]

get_events(start, end) ==
    /\ outcome' = [op |-> "get_events", start |-> start, end |-> end,
                   ret |-> GetEvents(scheduled_events, start, end)]
    /\ UNCHANGED schedulerVars

\* EventScheduler::clear
clear ==
    /\ scheduled_events' = EmptyMap
    /\ schedule_calls' = <<>>
    /\ outcome' = [op |-> "clear"]

ScheduleEvent ==
    /\ outcome = Idle
    /\ Len(schedule_calls) < MaxScheduled
    /\ \E position \in Positions, event \in ScheduledEvents :
          schedule_event(position, event)
    /\ UNCHANGED <<timelineVars, engineVars, tempoVars, outputVars, controllerVars>>

GetEventsInRange ==
    /\ outcome = Idle
    /\ \E start \in RangeBounds, end \in RangeBounds : get_events(start, end)
    /\ UNCHANGED <<tracks, containers, track_containers, adds>>
    /\ UNCHANGED <<engineVars, tempoVars, outputVars, controllerVars>>

ClearSchedule ==
    /\ outcome = Idle
    /\ clear
    /\ UNCHANGED <<tracks, containers, track_containers, adds>>
    /\ UNCHANGED <<engineVars, tempoVars, outputVars, controllerVars>>

SchedulerNext == ScheduleEvent \/ GetEventsInRange \/ ClearSchedule \/ DropResult

(***************************************************************************)
(* TempoMap.  A Tempo is its bpm, a whole number here; Tempo::new takes    *)
(* any f64 and checks nothing, so a negative tempo is among the inputs.    *)
(* The f64 arithmetic is modelled exactly: beats are carried scaled by     *)
(* SecondsPerMinute * ReferenceSampleRate, which makes every beat count    *)
(* of the model a whole number, far below 2^53.  tempo_calls is a history  *)
(* variable.                                                               *)
(***************************************************************************)
DefaultTimeSignature == [numerator |-> 4, denominator |-> 4]

TimeSignatures == {DefaultTimeSignature, [numerator |-> 3, denominator |-> 4]}

Tempos == {-DefaultBpm, DefaultBpm \div 2, DefaultBpm, 2 * DefaultBpm}

\* TempoMap::new, then Project::new adding the defaults once more.
TempoMapInit ==
    /\ tempo_changes = ProjectTempoMap
    /\ time_signature_changes = [p \in {0} |-> DefaultTimeSignature]
    /\ tempo_calls = <<>>

\* BTreeMap::insert replaces the value of a key that is present.  A variant
\* keeps the value that is there.
InsertChangeKeepsFirst(m, position, value) ==
    IF position \in DOMAIN m THEN m ELSE MapInsert(m, position, value)

InsertChange(m, position, value) == MapInsert(m, position, value)

add_tempo_change(position, tempo) ==
    /\ tempo_changes' = InsertChange(tempo_changes, position, tempo)
    /\ tempo_calls' = Append(tempo_calls,
                             [kind |-> "tempo", position |-> position, value |-> tempo])
    /\ outcome' = [op |-> "add_tempo_change", position |-> position, tempo |-> tempo]
    /\ UNCHANGED time_signature_changes

add_time_signature_change(position, time_signature) ==
    /\ time_signature_changes' =
          InsertChange(time_signature_changes, position, time_signature)
    /\ tempo_calls' = Append(tempo_calls,
                             [kind |-> "time_signature", position |-> position,
                              value |-> time_signature])
    /\ outcome' = [op |-> "add_time_signature_change", position |-> position]
    /\ UNCHANGED tempo_changes

\* range(..=position).next_back(): the entry with the greatest key at or
\* below the position; the lookup panics when there is none.
LatestChange(m, position) ==
    LET keys == {p \in DOMAIN m : p <= position}
    IN  IF keys = {} THEN [panicked |-> TRUE, key |-> 0]
        ELSE [panicked |-> FALSE, key |-> Max(keys), value |-> m[Max(keys)]]

tempo_at(position) ==
    /\ outcome' = [op |-> "tempo_at", position |-> position,
                   ret |-> LatestChange(tempo_changes, position)]
    /\ UNCHANGED tempoVars

time_signature_at(position) ==
    /\ outcome' = [op |-> "time_signature_at", position |-> position,
                   ret |-> LatestChange(time_signature_changes, position)]
    /\ UNCHANGED tempoVars

position_to_beats(position) ==
    /\ outcome' = [op |-> "position_to_beats", position |-> position,
                   ret |-> PositionToBeatsScaled(tempo_changes, position)]
    /\ UNCHANGED tempoVars

\* (x.round() as u64) for x = num / den: round half away from zero, and the
\* cast takes a negative value to 0.
RoundToU64(num, den) ==
    LET n == IF den < 0 THEN -num ELSE num
        d == IF den < 0 THEN -den ELSE den
    IN  IF n <= 0 THEN 0 ELSE (2 * n + d) \div (2 * d)

\* The loop of beats_to_position over the changes after the first entry:
\* current_beats is position_to_beats of the change, the whole count from
\* zero, and it is both compared with and subtracted from remaining_beats.
RECURSIVE WalkSegments(_, _, _, _, _)
WalkSegments(tm, changes, remaining_beats, current_position, current_tempo) ==
    IF changes = <<>>
        THEN [remaining_beats |-> remaining_beats,
              current_position |-> current_position,
              current_tempo |-> current_tempo]
        ELSE LET change_position == Head(changes)
                 current_beats == PositionToBeatsScaled(tm, change_position)
             IN  IF remaining_beats <= current_beats
                    THEN [remaining_beats |-> remaining_beats,
                          current_position |-> current_position,
                          current_tempo |-> current_tempo]
                    ELSE WalkSegments(tm, Tail(changes),
                                      remaining_beats - current_beats,
                                      change_position, tm[change_position])

\* TempoMap::beats_to_position for a beat count scaled like the result of
\* PositionToBeatsScaled: beats * beat_duration_secs * rate is the scaled
\* count divided by the bpm.
BeatsToPosition(tm, beats) ==
    LET w == WalkSegments(tm, Tail(Ascending(DOMAIN tm)), beats, 0, TempoAt(tm, 0))
    IN  w.current_position + RoundToU64(w.remaining_beats, w.current_tempo)

\* beats_to_position(position_to_beats(position))
round_trip(position) ==
    /\ outcome' = [op |-> "round_trip", position |-> position,
                   beats |-> PositionToBeatsScaled(tempo_changes, position),
                   ret |-> BeatsToPosition(tempo_changes,
                                           PositionToBeatsScaled(tempo_changes, position))]
    /\ UNCHANGED tempoVars

\* The positions the tempo map is asked about: the clock marks and the
\* tick after each.
BeatPositions == SamplePositions \cup {p + 1 : p \in SamplePositions}

AddTempoChange ==
    /\ outcome = Idle
    /\ Len(tempo_calls) < MaxTempoCalls
    /\ \E position \in SamplePositions, tempo \in Tempos :
          add_tempo_change(position, tempo)
    /\ UNCHANGED <<tracks, containers, track_containers, adds>>
    /\ UNCHANGED <<engineVars, schedulerVars, outputVars, controllerVars>>

AddTimeSignatureChange ==
    /\ outcome = Idle
    /\ Len(tempo_calls) < MaxTempoCalls
    /\ \E position \in SamplePositions, time_signature \in TimeSignatures :
          add_time_signature_change(position, time_signature)
    /\ UNCHANGED <<tracks, containers, track_containers, adds>>
    /\ UNCHANGED <<engineVars, schedulerVars, outputVars, controllerVars>>

TempoAtPosition ==
    /\ outcome = Idle
    /\ \E position \in BeatPositions : tempo_at(position)
    /\ UNCHANGED <<tracks, containers, track_containers, adds>>
    /\ UNCHANGED <<engineVars, schedulerVars, outputVars, controllerVars>>

TimeSignatureAtPosition ==
    /\ outcome = Idle
    /\ \E position \in BeatPositions : time_signature_at(position)
    /\ UNCHANGED <<tracks, containers, track_containers, adds>>
    /\ UNCHANGED <<engineVars, schedulerVars, outputVars, controllerVars>>

PositionToBeats ==
    /\ outcome = Idle
    /\ \E position \in BeatPositions : position_to_beats(position)
    /\ UNCHANGED <<tracks, containers, track_containers, adds>>
    /\ UNCHANGED <<engineVars, schedulerVars, outputVars, controllerVars>>

RoundTrip ==
    /\ outcome = Idle
    /\ \E position \in BeatPositions : round_trip(position)
    /\ UNCHANGED <<tracks, containers, track_containers, adds>>
    /\ UNCHANGED <<engineVars, schedulerVars, outputVars, controllerVars>>

TempoMapNext ==
    \/ AddTempoChange
    \/ AddTimeSignatureChange
    \/ TempoAtPosition
    \/ TimeSignatureAtPosition
    \/ PositionToBeats
    \/ RoundTrip
    \/ DropResult

(***************************************************************************)
(* TimePosition arithmetic.  position_ticks is a u64; the model writes it  *)
(* as Limbs digits of base LimbBase, least significant first, so that the  *)
(* full width of 64 bits is kept.                                          *)
(***************************************************************************)
Limbs == 4
LimbBase == 65536

\* TimePosition::new for a tick count below LimbBase.
Ticks(n) == [i \in 1..Limbs |-> IF i = 1 THEN n ELSE 0]

\* u64::MAX and its neighbour, and 2^63.
TicksMax == [i \in 1..Limbs |-> LimbBase - 1]
TicksBelowMax == [i \in 1..Limbs |-> IF i = 1 THEN LimbBase - 2 ELSE LimbBase - 1]
TicksHalf == [i \in 1..Limbs |-> IF i = Limbs THEN LimbBase \div 2 ELSE 0]

TickValues == {Ticks(0), Ticks(1), Ticks(2), TicksHalf, TicksBelowMax, TicksMax}

\* The carry into digit i of a + b, and the borrow into digit i of a - b.
RECURSIVE CarryInto(_, _, _)
CarryInto(a, b, i) ==
    IF i = 1 THEN 0 ELSE (a[i - 1] + b[i - 1] + CarryInto(a, b, i - 1)) \div LimbBase

RECURSIVE BorrowInto(_, _, _)
BorrowInto(a, b, i) ==
    IF i = 1 THEN 0
    ELSE IF a[i - 1] - b[i - 1] - BorrowInto(a, b, i - 1) < 0 THEN 1 ELSE 0

\* a + b and a - b reduced modulo 2^64.
WrappingAdd(a, b) ==
    [i \in 1..Limbs |-> (a[i] + b[i] + CarryInto(a, b, i)) % LimbBase]

WrappingSub(a, b) ==
    [i \in 1..Limbs |-> (a[i] - b[i] - BorrowInto(a, b, i) + LimbBase) % LimbBase]

\* a + b does not fit into 64 bits; a < b.
Overflows(a, b) == CarryInto(a, b, Limbs + 1) = 1

Less(a, b) == BorrowInto(a, b, Limbs + 1) = 1

\* u64::saturating_sub
saturating_sub(a, b) == IF Less(a, b) THEN Ticks(0) ELSE WrappingSub(a, b)

\* self.position_ticks + other.position_ticks: the plain + of u64.  On
\* overflow a build with overflow checks panics and a build without them
\* wraps; the result is either.
PlainAdd(a, b) ==
    IF Overflows(a, b)
        THEN {[panicked |-> TRUE, value |-> Ticks(0)],
              [panicked |-> FALSE, value |-> WrappingAdd(a, b)]}
        ELSE {[panicked |-> FALSE, value |-> WrappingAdd(a, b)]}

\* impl Add / AddAssign for TimePosition
PositionAdd ==
    /\ outcome = Idle
    /\ \E a \in TickValues, b \in TickValues : \E r \in PlainAdd(a, b) :
          outcome' = [op |-> "add", a |-> a, b |-> b, ret |-> r]
    /\ UNCHANGED <<tracks, containers, track_containers, adds>>
    /\ UNCHANGED <<engineVars, schedulerVars, tempoVars, outputVars, controllerVars>>

PositionAddAssign ==
    /\ outcome = Idle
    /\ \E a \in TickValues, b \in TickValues : \E r \in PlainAdd(a, b) :
          outcome' = [op |-> "add_assign", a |-> a, b |-> b, ret |-> r]
    /\ UNCHANGED <<tracks, containers, track_containers, adds>>
    /\ UNCHANGED <<engineVars, schedulerVars, tempoVars, outputVars, controllerVars>>

\* impl Sub / SubAssign for TimePosition
PositionSub ==
    /\ outcome = Idle
    /\ \E a \in TickValues, b \in TickValues :
          outcome' = [op |-> "sub", a |-> a, b |-> b,
                      ret |-> [panicked |-> FALSE, value |-> saturating_sub(a, b)]]
    /\ UNCHANGED <<tracks, containers, track_containers, adds>>
    /\ UNCHANGED <<engineVars, schedulerVars, tempoVars, outputVars, controllerVars>>

PositionSubAssign ==
    /\ outcome = Idle
    /\ \E a \in TickValues, b \in TickValues :
          outcome' = [op |-> "sub_assign", a |-> a, b |-> b,
                      ret |-> [panicked |-> FALSE, value |-> saturating_sub(a, b)]]
    /\ UNCHANGED <<tracks, containers, track_containers, adds>>
    /\ UNCHANGED <<engineVars, schedulerVars, tempoVars, outputVars, controllerVars>>

PositionNext ==
    PositionAdd \/ PositionAddAssign \/ PositionSub \/ PositionSubAssign \/ DropResult

(***************************************************************************)
(* OutputSystem and MidiOutputEndpoint.  An endpoint is what the registry  *)
(* holds of it: the port index parsed from the device id and whether a     *)
(* connection is open.  Every registered endpoint is a MidiOutputEndpoint, *)
(* the only implementation of OutputEndpoint.                              *)
(***************************************************************************)
\* The system offers between no and MaxPorts MIDI output ports.
MaxPorts == 2

EndpointIds == {"e1", "e2"}

\* Option<EndpointId>::None
None == "none"

Targets == EndpointIds \cup {None}

EndpointTypes == {"Midi", "Audio", "Vst"}

\* Device ids as strings of characters: well formed for the ports 0 and 1,
\* with a signed index, without a separator, with an index that is no
\* number, and with no index at all.
DeviceIds ==
    {<<"0", ":", "A">>, <<"1", ":", "A", ":", "B">>, <<"+", "1", ":", "A">>,
     <<"1", "A">>, <<"x", ":", "A">>, <<":", "A">>, <<"-", "1", ":", "A">>}

\* EndpointConfig: the fields add_endpoint reads.  `parameters` is the
\* variant of EndpointParameters.
EndpointConfigs ==
    [id : EndpointIds, endpoint_type : EndpointTypes,
     device_id : DeviceIds, parameters : {"Midi", "Audio"}]

Ok == "Ok"

ErrInvalidParameters == "Invalid parameters for MIDI endpoint"

ErrDeviceIdFormat == "Invalid MIDI device ID format"

ErrPortIndex == "Invalid MIDI port index"

ErrNotImplemented == "Endpoint type not implemented"

ErrNotFound == "Endpoint not found"

ErrNotConnected == "MIDI device not connected"

ErrUnsupported == "Unsupported event type for MIDI endpoint"

ErrOutOfRange == "MIDI port index out of range"

\* An error of the midir backend: no client, a refused connection or a
\* failed write.
ErrBackend == "midir error"

\* str::splitn(2, ':'): the part before the first separator and the rest,
\* or the whole string when there is no separator.
RECURSIVE SeparatorAt(_, _)
SeparatorAt(s, i) ==
    IF i > Len(s) THEN 0
    ELSE IF s[i] = ":" THEN i
    ELSE SeparatorAt(s, i + 1)

splitn2(s) ==
    LET i == SeparatorAt(s, 1)
    IN  IF i = 0 THEN <<s>>
        ELSE <<SubSeq(s, 1, i - 1), SubSeq(s, i + 1, Len(s))>>

Digits == "0" :> 0 @@ "1" :> 1 @@ "2" :> 2 @@ "3" :> 3 @@ "4" :> 4 @@
          "5" :> 5 @@ "6" :> 6 @@ "7" :> 7 @@ "8" :> 8 @@ "9" :> 9

RECURSIVE DigitsValue(_, _)
DigitsValue(s, acc) ==
    IF s = <<>> THEN acc ELSE DigitsValue(Tail(s), acc * Cardinality(DOMAIN Digits) + Digits[Head(s)])

\* str::parse::<usize>: an optional '+' and at least one digit, nothing
\* else; every other string is an error.
ParseError == [ok |-> FALSE, value |-> 0]

parse_usize(s) ==
    LET body == IF s # <<>> /\ Head(s) = "+" THEN Tail(s) ELSE s
    IN  IF body # <<>> /\ \A i \in 1..Len(body) : body[i] \in DOMAIN Digits
            THEN [ok |-> TRUE, value |-> DigitsValue(body, 0)]
            ELSE ParseError

\* MidiOutputEndpoint::new: connection: None.
MidiOutputEndpoint(port_index) == [port_index |-> port_index, connected |-> FALSE]

is_connected(ep) == ep.connected

endpoint_type(ep) == "Midi"

\* OutputSystem::add_endpoint: the registry afterwards and the result.  The
\* insertion is the last step; a variant registers the endpoint of a
\* malformed device id under port 0.
Rejected(eps, err) == [endpoints |-> eps, ret |-> err]

RejectedRegistered(eps, id, err) ==
    [endpoints |-> MapInsert(eps, id, MidiOutputEndpoint(0)), ret |-> err]

RejectedDeviceId(eps, id, err) == Rejected(eps, err)

add_endpoint(eps, config) ==
    IF config.endpoint_type # "Midi" THEN Rejected(eps, ErrNotImplemented)
    ELSE IF config.parameters # "Midi" THEN Rejected(eps, ErrInvalidParameters)
    ELSE LET parts == splitn2(config.device_id)
         IN  IF Len(parts) # 2
                 THEN RejectedDeviceId(eps, config.id, ErrDeviceIdFormat)
             ELSE LET port_index == parse_usize(parts[1])
                  IN  IF ~port_index.ok
                          THEN RejectedDeviceId(eps, config.id, ErrPortIndex)
                          ELSE [endpoints |->
                                    MapInsert(eps, config.id,
                                              MidiOutputEndpoint(port_index.value)),
                                ret |-> Ok]

\* MidiOutputEndpoint::connect with `ports` ports in the system; `backend`
\* is whether the midir calls succeed.
connect(ep, ports, backend) ==
    IF is_connected(ep) THEN [endpoint |-> ep, ret |-> Ok]
    ELSE IF ~backend THEN [endpoint |-> ep, ret |-> ErrBackend]
    ELSE IF ep.port_index >= ports THEN [endpoint |-> ep, ret |-> ErrOutOfRange]
    ELSE [endpoint |-> [ep EXCEPT !.connected = TRUE], ret |-> Ok]

disconnect(ep) == [ep EXCEPT !.connected = FALSE]

\* OutputSystem::connect_endpoint
connect_endpoint(eps, id, ports, backend) ==
    IF id \in DOMAIN eps
        THEN LET r == connect(eps[id], ports, backend)
             IN  [endpoints |-> [eps EXCEPT ![id] = r.endpoint], ret |-> r.ret]
        ELSE [endpoints |-> eps, ret |-> ErrNotFound]

\* OutputSystem::disconnect_endpoint
disconnect_endpoint(eps, id) ==
    IF id \in DOMAIN eps THEN [eps EXCEPT ![id] = disconnect(@)] ELSE eps

\* OutputSystem::is_endpoint_connected
is_endpoint_connected(eps, id) ==
    IF id \in DOMAIN eps THEN is_connected(eps[id]) ELSE FALSE

(***************************************************************************)
(* The bytes of a MIDI message.                                            *)
(***************************************************************************)
RECURSIVE BitAnd(_, _)
BitAnd(a, b) ==
    IF a = 0 \/ b = 0 THEN 0
    ELSE (a % 2) * (b % 2) + 2 * BitAnd(a \div 2, b \div 2)

RECURSIVE BitOr(_, _)
BitOr(a, b) ==
    IF a = 0 THEN b
    ELSE IF b = 0 THEN a
    ELSE Max({a % 2, b % 2}) + 2 * BitOr(a \div 2, b \div 2)

RECURSIVE ShiftRight(_, _)
ShiftRight(a, n) == IF n = 0 THEN a ELSE ShiftRight(a \div 2, n - 1)

StatusNoteOn == 144

StatusNoteOff == 128

StatusControlChange == 176

StatusProgramChange == 192

StatusPitchBend == 224

StatusAftertouch == 208

StatusPolyAftertouch == 160

ChannelMask == 15

DataMask == 127

DataBits == 7

BendCenter == 8192

I16Max == 32767

U16Modulus == 65536

\* status | (channel & 0x0F).  A variant does not mask the channel.
StatusByteUnmasked(status, channel) == BitOr(status, channel)

StatusByte(status, channel) == BitOr(status, BitAnd(channel, ChannelMask))

\* `as u16` of an i16: the value modulo 2^16.
AsU16(x) == (x + U16Modulus) % U16Modulus

\* *value + 8192 in i16: when the sum does not fit, a build with overflow
\* checks panics and one without them wraps.
Panic == [panicked |-> TRUE, value |-> 0]

BendSum(value) ==
    IF value + BendCenter > I16Max
        THEN {Panic, [panicked |-> FALSE, value |-> value + BendCenter - U16Modulus]}
        ELSE {[panicked |-> FALSE, value |-> value + BendCenter]}

\* The low and the high seven bits of the bend value.
BendBytes(bend_value) ==
    <<BitAnd(bend_value, DataMask),
      BitAnd(ShiftRight(bend_value, DataBits), DataMask)>>

\* The event types of OutputEventType that the constructors of OutputEvent
\* do not cover.
midi_cc(channel, controller, value) ==
    [type |-> "MidiControlChange", channel |-> channel,
     controller |-> controller, value |-> value]

MidiProgramChange(channel, program) ==
    [type |-> "MidiProgramChange", channel |-> channel, program |-> program]

MidiPitchBend(channel, value) ==
    [type |-> "MidiPitchBend", channel |-> channel, value |-> value]

MidiAftertouch(channel, pressure) ==
    [type |-> "MidiAftertouch", channel |-> channel, pressure |-> pressure]

MidiPolyAftertouch(channel, note, pressure) ==
    [type |-> "MidiPolyAftertouch", channel |-> channel, note |-> note,
     pressure |-> pressure]

AudioBuffer == [type |-> "AudioBuffer"]

VstParameter == [type |-> "VstParameter"]

SyncPulse == [type |-> "SyncPulse"]

EndOfTrack == [type |-> "EndOfTrack"]

MidiTypes ==
    {"MidiNoteOn", "MidiNoteOff", "MidiControlChange", "MidiProgramChange",
     "MidiPitchBend", "MidiAftertouch", "MidiPolyAftertouch"}

\* OutputEvent::is_midi / is_audio
is_midi(event_type) == event_type.type \in MidiTypes

is_audio(event_type) == event_type.type = "AudioBuffer"

\* The match of MidiOutputEndpoint::send_event: the message of the event
\* type, a refusal, or a panic in the arithmetic.
Encoded(message) == [kind |-> "message", message |-> message]

Refused == [kind |-> "unsupported", message |-> <<>>]

Panicked == [kind |-> "panic", message |-> <<>>]

Encode(e) ==
    CASE e.type = "MidiNoteOn" ->
            {Encoded(<<StatusByte(StatusNoteOn, e.channel), e.note, e.velocity>>)}
      [] e.type = "MidiNoteOff" ->
            {Encoded(<<StatusByte(StatusNoteOff, e.channel), e.note, 0>>)}
      [] e.type = "MidiControlChange" ->
            {Encoded(<<StatusByte(StatusControlChange, e.channel),
                       e.controller, e.value>>)}
      [] e.type = "MidiProgramChange" ->
            {Encoded(<<StatusByte(StatusProgramChange, e.channel), e.program>>)}
      [] e.type = "MidiPitchBend" ->
            {IF s.panicked
                THEN Panicked
                ELSE Encoded(<<StatusByte(StatusPitchBend, e.channel)>>
                             \o BendBytes(AsU16(s.value))) : s \in BendSum(e.value)}
      [] e.type = "MidiAftertouch" ->
            {Encoded(<<StatusByte(StatusAftertouch, e.channel), e.pressure>>)}
      [] e.type = "MidiPolyAftertouch" ->
            {Encoded(<<StatusByte(StatusPolyAftertouch, e.channel),
                       e.note, e.pressure>>)}
      [] OTHER -> {Refused}

\* MidiOutputEndpoint::send_event followed by send_midi_message: the result
\* and the bytes that went out.  The write of an open connection can fail.
Sent(ret, message) == [ret |-> ret, message |-> message]

HasConnection(ep) == is_connected(ep)

send_midi_message(ep, message) ==
    IF HasConnection(ep)
        THEN {Sent(Ok, message), Sent(ErrBackend, <<>>)}
        ELSE {Sent(ErrNotConnected, <<>>)}

endpoint_send_event(ep, e) ==
    UNION {CASE m.kind = "message" -> send_midi_message(ep, m.message)
             [] m.kind = "unsupported" -> {Sent(ErrUnsupported, <<>>)}
             [] OTHER -> {Sent("panic", <<>>)} : m \in Encode(e)}

(***************************************************************************)
(* OutputSystem::send_event.                                               *)
(***************************************************************************)
OutputEvent(event_type, target) == [event_type |-> event_type, target |-> target]

\* The guards of the broadcast match.
Accepts(ep, e) ==
    \/ is_midi(e) /\ endpoint_type(ep) = "Midi"
    \/ is_audio(e) /\ endpoint_type(ep) = "Audio"

\* What a call has done so far: the endpoints it called send_event on, the
\* results it collected and the messages that went out, each in order.
NothingSent == [attempts |-> <<>>, results |-> <<>>, wire |-> <<>>, panicked |-> FALSE]

After(id, s, rest) ==
    IF s.ret = "panic"
        THEN [attempts |-> <<id>>, results |-> <<>>, wire |-> <<>>, panicked |-> TRUE]
        ELSE [attempts |-> <<id>> \o rest.attempts,
              results |-> <<s.ret>> \o rest.results,
              wire |-> (IF s.message = <<>> THEN <<>>
                        ELSE <<[to |-> id, message |-> s.message]>>) \o rest.wire,
              panicked |-> rest.panicked]

\* The broadcast loop over the endpoints in the order `order`.
RECURSIVE SendAll(_, _, _)
SendAll(eps, order, e) ==
    IF order = <<>> THEN {NothingSent}
    ELSE IF ~Accepts(eps[Head(order)], e) THEN SendAll(eps, Tail(order), e)
    ELSE {After(Head(order), s, rest) :
              s \in endpoint_send_event(eps[Head(order)], e),
              rest \in SendAll(eps, Tail(order), e)}

\* The orders in which a HashMap can hand out its keys.
Orders(S) ==
    {o \in [1..Cardinality(S) -> S] : \A i, j \in DOMAIN o : o[i] = o[j] => i = j}

\* OutputSystem::send_event_to_endpoint
TargetMissing(eps, e) == {[NothingSent EXCEPT !.results = <<ErrNotFound>>]}

send_event_to_endpoint(eps, id, e) ==
    IF id \in DOMAIN eps
        THEN {After(id, s, NothingSent) : s \in endpoint_send_event(eps[id], e)}
        ELSE TargetMissing(eps, e)

send_event(eps, event) ==
    IF event.target # None
        THEN send_event_to_endpoint(eps, event.target, event.event_type)
        ELSE UNION {SendAll(eps, o, event.event_type) : o \in Orders(DOMAIN eps)}

(***************************************************************************)
(* The calls on an OutputSystem.                                           *)
(***************************************************************************)
MidiChannels == {0, 9, 15, 17}

DataBytes == {0, 100, 255}

I16Min == -32768

\* Bend values: the ends of the i16 range, the ends of the 14-bit range
\* and the last value whose sum with the centre fits an i16, with its
\* neighbours.
BendValues ==
    {I16Min, -BendCenter - 1, -BendCenter, 0, BendCenter - 1,
     I16Max - BendCenter, I16Max - BendCenter + 1, I16Max}

OutputEventTypes ==
    {midi_note_on(c, n, v) : c \in MidiChannels, n \in DataBytes, v \in DataBytes}
    \cup {midi_note_off(c, n) : c \in MidiChannels, n \in DataBytes}
    \cup {midi_cc(c, n, v) : c \in MidiChannels, n \in DataBytes, v \in DataBytes}
    \cup {MidiProgramChange(c, n) : c \in MidiChannels, n \in DataBytes}
    \cup {MidiPitchBend(c, v) : c \in MidiChannels, v \in BendValues}
    \cup {MidiAftertouch(c, n) : c \in MidiChannels, n \in DataBytes}
    \cup {MidiPolyAftertouch(c, n, v) : c \in MidiChannels, n \in DataBytes, v \in DataBytes}
    \cup {AudioBuffer, VstParameter, SyncPulse, EndOfTrack}

OutputEvents == {OutputEvent(e, t) : e \in OutputEventTypes, t \in Targets}

\* OutputSystem::new
OutputInit == endpoints = EmptyMap

AddEndpoint ==
    /\ outcome = Idle
    /\ \E config \in EndpointConfigs :
          LET r == add_endpoint(endpoints, config)
          IN  /\ endpoints' = r.endpoints
              /\ outcome' = [op |-> "add_endpoint", config |-> config,
                             before |-> endpoints, ret |-> r.ret]
    /\ UNCHANGED <<tracks, containers, track_containers, adds>>
    /\ UNCHANGED <<engineVars, schedulerVars, tempoVars, controllerVars>>

ConnectEndpoint ==
    /\ outcome = Idle
    /\ \E id \in EndpointIds, ports \in 0..MaxPorts, backend \in BOOLEAN :
          LET r == connect_endpoint(endpoints, id, ports, backend)
          IN  /\ endpoints' = r.endpoints
              /\ outcome' = [op |-> "connect_endpoint", id |-> id, ret |-> r.ret]
    /\ UNCHANGED <<tracks, containers, track_containers, adds>>
    /\ UNCHANGED <<engineVars, schedulerVars, tempoVars, controllerVars>>

DisconnectEndpoint ==
    /\ outcome = Idle
    /\ \E id \in EndpointIds :
          /\ endpoints' = disconnect_endpoint(endpoints, id)
          /\ outcome' = [op |-> "disconnect_endpoint", id |-> id]
    /\ UNCHANGED <<tracks, containers, track_containers, adds>>
    /\ UNCHANGED <<engineVars, schedulerVars, tempoVars, controllerVars>>

IsEndpointConnected ==
    /\ outcome = Idle
    /\ \E id \in EndpointIds :
          outcome' = [op |-> "is_endpoint_connected", id |-> id,
                      ret |-> is_endpoint_connected(endpoints, id)]
    /\ UNCHANGED <<tracks, containers, track_containers, adds, endpoints>>
    /\ UNCHANGED <<engineVars, schedulerVars, tempoVars, controllerVars>>

SendEvent ==
    /\ outcome = Idle
    /\ \E event \in OutputEvents : \E r \in send_event(endpoints, event) :
          outcome' = [op |-> "send_event", event |-> event,
                      attempts |-> r.attempts, results |-> r.results,
                      wire |-> r.wire, panicked |-> r.panicked]
    /\ UNCHANGED <<tracks, containers, track_containers, adds, endpoints>>
    /\ UNCHANGED <<engineVars, schedulerVars, tempoVars, controllerVars>>

OutputNext ==
    \/ AddEndpoint
    \/ ConnectEndpoint
    \/ DisconnectEndpoint
    \/ IsEndpointConnected
    \/ SendEvent
    \/ DropResult

(***************************************************************************)
(* The controller: the command channel, the control loop, the handlers and *)
(* the EventHub with its observers.                                        *)
(***************************************************************************)
\* The commands sent over the life of the channel, and the observers.
MaxCommands == 2

MaxObservers == 2

ObserverIds == 1..MaxObservers

\* Command: the variants with a handler, and of those without one the six
\* that stand for the rest.
UnhandledTypes ==
    {"AddContainer", "RemoveTrack", "SetTempo", "Pause", "ConnectOutput",
     "SetClockSource"}

Commands ==
    {[type |-> "CreateProject"], [type |-> "AddTrack"], [type |-> "Play"],
     [type |-> "Stop"], [type |-> "Shutdown"]}
    \cup {[type |-> "MoveContainer", container_id |-> cid, new_position |-> TickStep] :
             cid \in ContainerIds}
    \cup {[type |-> "ResizeContainer", container_id |-> cid, new_length |-> TickStep] :
             cid \in ContainerIds}
    \cup {[type |-> "Seek", position |-> TickStep]}
    \cup {[type |-> t] : t \in UnhandledTypes}

\* Event: the variants the controller dispatches.
ProjectCreated == [type |-> "ProjectCreated"]

TrackAdded(track_id) == [type |-> "TrackAdded", track_id |-> track_id]

ContainerMoved(container_id, position) ==
    [type |-> "ContainerMoved", container_id |-> container_id, position |-> position]

ContainerResized(container_id, length) ==
    [type |-> "ContainerResized", container_id |-> container_id, length |-> length]

PlaybackStarted == [type |-> "PlaybackStarted"]

PlaybackStopped == [type |-> "PlaybackStopped"]

PlaybackPositionChanged(position) ==
    [type |-> "PlaybackPositionChanged", position |-> position]

\* Event::Error { message }: the message is the Debug form of the command.
Error(command) == [type |-> "Error", message |-> command]

\* Controller::new with a fresh command channel, an empty EventHub and a
\* project from Project::new.
ControllerInit ==
    /\ command_queue = <<>>
    /\ senders_open = TRUE
    /\ running = FALSE
    /\ control_loop = "new"
    /\ handled = <<>>
    /\ receivers = <<>>
    /\ inbox = [o \in ObserverIds |-> <<>>]
    /\ rx_open = [o \in ObserverIds |-> TRUE]
    /\ dispatched = <<>>
    /\ active_timeline = TRUE

\* EventHub::dispatch: a send to each receiver in registration order, the
\* result thrown away.  A send to a channel whose receiver is gone fails
\* and leaves nothing behind.  A variant gives up at the first failure.
AfterFailedSendStop(rest) == <<>>

AfterFailedSend(rest) == rest

RECURSIVE Deliver(_, _, _)
Deliver(rs, box, event) ==
    IF rs = <<>> THEN box
    ELSE IF rx_open[Head(rs)]
        THEN Deliver(Tail(rs), [box EXCEPT ![Head(rs)] = Append(@, event)], event)
        ELSE Deliver(AfterFailedSend(Tail(rs)), box, event)

dispatch(event) ==
    /\ inbox' = Deliver(receivers, inbox, event)
    /\ dispatched' = Append(dispatched, event)

NoDispatch == UNCHANGED <<inbox, dispatched>>

\* What a handler can change besides the hub: the project, the engine and
\* the running flag.
projectVars ==
    <<tracks, containers, track_containers, adds, outcome, tempoVars, active_timeline>>

transportVars == <<playing, playback_thread, thr, stop_returned>>

\* Controller::handle_create_project: *project = Project::new(name)
handle_create_project ==
    /\ tracks' = <<>>
    /\ containers' = EmptyMap
    /\ track_containers' = EmptyMap
    /\ tempo_changes' = ProjectTempoMap
    /\ time_signature_changes' = [p \in {0} |-> DefaultTimeSignature]
    /\ tempo_calls' = <<>>
    /\ active_timeline' = TRUE
    /\ dispatch(ProjectCreated)
    /\ UNCHANGED <<adds, outcome, transportVars, running>>

\* Controller::handle_add_track
handle_add_track ==
    /\ IF active_timeline
          THEN \E tid \in FreshTrackIds(tracks) :
                  /\ add_track(tid)
                  /\ dispatch(TrackAdded(tid))
          ELSE /\ UNCHANGED <<tracks, containers, track_containers, adds, outcome>>
               /\ NoDispatch
    /\ UNCHANGED <<tempoVars, active_timeline, transportVars, running>>

\* Controller::handle_move_container: the event follows a move that
\* returned true.  A variant dispatches it whatever the move returned.
MoveSucceededAlways(found) == TRUE

MoveSucceeded(found) == found

handle_move_container(container_id, new_position) ==
    /\ IF active_timeline
          THEN /\ move_container(container_id, new_position)
               /\ IF MoveSucceeded(outcome'.ret)
                     THEN dispatch(ContainerMoved(container_id, new_position))
                     ELSE NoDispatch
          ELSE /\ UNCHANGED <<tracks, containers, track_containers, adds, outcome>>
               /\ NoDispatch
    /\ UNCHANGED <<tempoVars, active_timeline, transportVars, running>>

\* Controller::handle_resize_container
handle_resize_container(container_id, new_length) ==
    /\ IF active_timeline /\ container_id \in DOMAIN containers
          THEN /\ containers' = [containers EXCEPT ![container_id].length = new_length]
               /\ dispatch(ContainerResized(container_id, new_length))
          ELSE /\ UNCHANGED containers
               /\ NoDispatch
    /\ UNCHANGED <<tracks, track_containers, adds, outcome, tempoVars,
                   active_timeline, transportVars, running>>

\* Controller::handle_play
handle_play ==
    /\ play
    /\ stop_returned' = FALSE
    /\ dispatch(PlaybackStarted)
    /\ UNCHANGED <<projectVars, running>>

\* Controller::handle_stop.  The handler returns from engine.stop() after
\* the join; here the playback thread takes no steps of its own, and the
\* join finds it finished.
handle_stop ==
    /\ IF playing
          THEN /\ playing' = FALSE
               /\ playback_thread' = NoThread
               /\ thr' = IF playback_thread = NoThread THEN thr
                         ELSE [thr EXCEPT ![playback_thread] = Parked("none")]
          ELSE UNCHANGED <<playing, playback_thread, thr>>
    /\ stop_returned' = TRUE
    /\ dispatch(PlaybackStopped)
    /\ UNCHANGED <<projectVars, running>>

\* Controller::handle_seek: engine.seek(position) does nothing.
handle_seek(position) ==
    /\ dispatch(PlaybackPositionChanged(position))
    /\ UNCHANGED <<projectVars, transportVars, running>>

\* Controller::handle_shutdown
handle_shutdown ==
    /\ running' = FALSE
    /\ NoDispatch
    /\ UNCHANGED <<projectVars, transportVars>>

\* The catch-all arm of handle_command.  A variant drops the command.
unhandled_dropped(command) ==
    /\ NoDispatch
    /\ UNCHANGED <<projectVars, transportVars, running>>

unhandled(command) ==
    /\ dispatch(Error(command))
    /\ UNCHANGED <<projectVars, transportVars, running>>

\* Controller::handle_command
handle_command(command) ==
    CASE command.type = "CreateProject" -> handle_create_project
      [] command.type = "AddTrack" -> handle_add_track
      [] command.type = "MoveContainer" ->
            handle_move_container(command.container_id, command.new_position)
      [] command.type = "ResizeContainer" ->
            handle_resize_container(command.container_id, command.new_length)
      [] command.type = "Play" -> handle_play
      [] command.type = "Stop" -> handle_stop
      [] command.type = "Seek" -> handle_seek(command.position)
      [] command.type = "Shutdown" -> handle_shutdown
      [] OTHER -> unhandled(command)

\* The rest of the state, which no step of the control context touches.
controllerFrame ==
    <<clock_source, proj_readers, out_lock, received, ctl, caller,
      schedulerVars, outputVars, senders_open, receivers, rx_open>>

\* Controller::run up to the loop.
Run ==
    /\ control_loop = "new"
    /\ running' = TRUE
    /\ control_loop' = "loop"
    /\ UNCHANGED <<command_queue, handled, inbox, dispatched, projectVars,
                   transportVars, controllerFrame>>

\* try_recv: the oldest command of the queue.  A variant takes the newest.
NextCommandNewest(queue) == Len(queue)

NextCommand(queue) == 1

Without(queue, i) == SubSeq(queue, 1, i - 1) \o SubSeq(queue, i + 1, Len(queue))

\* One iteration of the loop: try_recv, then the handler of the command
\* received, or the exit when the queue is empty and every sender is gone.
\* An iteration that finds the queue empty and a sender alive changes
\* nothing.
Poll ==
    /\ control_loop = "loop"
    /\ running
    /\ IF command_queue # <<>>
          THEN LET i == NextCommand(command_queue) IN
               /\ handle_command(command_queue[i])
               /\ command_queue' = Without(command_queue, i)
               /\ handled' = Append(handled, command_queue[i])
               /\ UNCHANGED control_loop
          ELSE /\ ~senders_open
               /\ running' = FALSE
               /\ control_loop' = "exited"
               /\ UNCHANGED <<command_queue, handled, inbox, dispatched,
                              projectVars, transportVars>>
    /\ UNCHANGED controllerFrame

\* while self.running, found false after handle_shutdown.
LoopExit ==
    /\ control_loop = "loop"
    /\ ~running
    /\ control_loop' = "exited"
    /\ UNCHANGED <<command_queue, handled, running, inbox, dispatched,
                   projectVars, transportVars, controllerFrame>>

\* CommandSender::send.  AddTrack is sent while the timeline has an id left
\* for the track.
Queued(type) ==
    Cardinality({i \in DOMAIN command_queue : command_queue[i].type = type})

SendCommand ==
    /\ senders_open
    /\ Len(handled) + Len(command_queue) < MaxCommands
    /\ \E command \in Commands :
          /\ command.type = "AddTrack" =>
                Len(tracks) + Queued("AddTrack") < Len(TrackIdOrder)
          /\ command_queue' = Append(command_queue, command)
    /\ UNCHANGED <<handled, running, control_loop, inbox, dispatched, projectVars,
                   transportVars, controllerFrame>>

\* The last CommandSender is dropped.
CloseSenders ==
    /\ senders_open
    /\ senders_open' = FALSE
    /\ UNCHANGED <<timelineVars, engineVars, schedulerVars, tempoVars, outputVars>>
    /\ UNCHANGED <<command_queue, running, control_loop, handled, receivers,
                   inbox, rx_open, dispatched, active_timeline>>

\* EventHub::add_receiver: the observers register in the order of their
\* ids.  The controller owns its hub, so that none registers once the loop
\* has begun.
AddReceiver ==
    /\ control_loop = "new"
    /\ Len(receivers) < MaxObservers
    /\ receivers' = Append(receivers, Len(receivers) + 1)
    /\ UNCHANGED <<timelineVars, engineVars, schedulerVars, tempoVars, outputVars>>
    /\ UNCHANGED <<command_queue, senders_open, running, control_loop, handled,
                   inbox, rx_open, dispatched, active_timeline>>

\* An observer drops its EventReceiver.
CloseObserver ==
    /\ \E o \in ObserverIds :
          /\ rx_open[o]
          /\ \E i \in DOMAIN receivers : receivers[i] = o
          /\ rx_open' = [rx_open EXCEPT ![o] = FALSE]
    /\ UNCHANGED <<timelineVars, engineVars, schedulerVars, tempoVars, outputVars>>
    /\ UNCHANGED <<command_queue, senders_open, running, control_loop, handled,
                   receivers, inbox, dispatched, active_timeline>>

\* A holder of the shared project clears Project.active_timeline_id.
ProjectClearActiveTimeline ==
    /\ active_timeline
    /\ active_timeline' = FALSE
    /\ UNCHANGED <<timelineVars, engineVars, schedulerVars, tempoVars, outputVars>>
    /\ UNCHANGED <<command_queue, senders_open, running, control_loop, handled,
                   receivers, inbox, rx_open, dispatched>>

\* The controller with observers that stay, on a project whose timeline
\* other holders of the project fill with containers.
ControllerNext ==
    \/ Run
    \/ Poll
    \/ LoopExit
    \/ SendCommand
    \/ CloseSenders
    \/ AddReceiver
    \/ ProjectClearActiveTimeline
    \/ ProjectAddContainer

\* EventHub::dispatch called directly, and the hub on its own: observers
\* that come and go between the dispatches.
MaxDispatched == 3

HubEvents == {PlaybackStarted, PlaybackStopped}

HubDispatch ==
    /\ Len(dispatched) < MaxDispatched
    /\ \E event \in HubEvents : dispatch(event)
    /\ UNCHANGED <<timelineVars, engineVars, schedulerVars, tempoVars, outputVars>>
    /\ UNCHANGED <<command_queue, senders_open, running, control_loop, handled,
                   receivers, rx_open, active_timeline>>

EventHubNext == AddReceiver \/ CloseObserver \/ HubDispatch

Init ==
    /\ TimelineInit /\ EngineInit /\ SchedulerInit /\ TempoMapInit
    /\ OutputInit /\ ControllerInit

TimelineNext == AddTrack \/ AddContainer \/ MoveContainer \/ QueryRange \/ DropResult

SpecTimeline == Init /\ [][TimelineNext]_vars

SpecScheduler == Init /\ [][SchedulerNext]_vars

SpecTempoMap == Init /\ [][TempoMapNext]_vars

SpecPosition == Init /\ [][PositionNext]_vars

SpecOutput == Init /\ [][OutputNext]_vars

SpecController == Init /\ [][ControllerNext]_vars

SpecEventHub == Init /\ [][EventHubNext]_vars

\* The control context is a thread of its own that is scheduled again and
\* again: run() is entered, and every iteration of its loop that has
\* something to do is taken.
ControllerFairness ==
    /\ WF_vars(Run)
    /\ WF_vars(Poll)
    /\ WF_vars(LoopExit)

SpecControllerFair == SpecController /\ ControllerFairness

(***************************************************************************)
(* The engine with its playback thread, the control context, the writers   *)
(* of the project and the other user of the OutputSystem.                  *)
(***************************************************************************)
ThreadStep(t) ==
    \/ ThreadCheck(t)
    \/ ThreadReadProject(t)
    \/ ThreadPublish(t)
    \/ ThreadGenerate(t)
    \/ ThreadLockOutput(t)
    \/ ThreadSend(t)
    \/ ThreadUnlockOutput(t)
    \/ ThreadSleep(t)

EngineNext ==
    \/ Play
    \/ Stop
    \/ SetClockSource
    \/ Join
    \/ Seek
    \/ Return
    \/ \E t \in ThreadIds : ThreadStep(t)
    \/ CallerLock
    \/ CallerSend
    \/ CallerUnlock
    \/ ProjectAddTrack
    \/ ProjectAddContainer

SpecEngine == Init /\ [][EngineNext]_vars

\* The scheduler runs every thread that can take a step, a thread waiting
\* for a lock gets it when the lock keeps coming free, and whoever holds
\* the output guard gives it back.
ThreadRuns(t) ==
    \/ ThreadCheck(t)
    \/ ThreadReadProject(t)
    \/ ThreadPublish(t)
    \/ ThreadGenerate(t)
    \/ ThreadSend(t)
    \/ ThreadUnlockOutput(t)
    \/ ThreadSleep(t)

EngineFairness ==
    /\ \A t \in ThreadIds :
          /\ WF_vars(ThreadRuns(t))
          /\ SF_vars(ThreadLockOutput(t))
    /\ WF_vars(Join)
    /\ WF_vars(CallerSend)
    /\ WF_vars(CallerUnlock)

SpecEngineFair == SpecEngine /\ EngineFairness

(***************************************************************************)
(* Properties of the PlaybackEngine.                                       *)
(***************************************************************************)
\* A step in which a playback thread sends a PlaybackPositionChanged
\* notification or hands an OutputEvent to the OutputSystem.
ThreadEmits == \E t \in ThreadIds : ThreadPublish(t) \/ ThreadSend(t)

\* C1: once stop() has returned, and until the next play(), no playback
\* thread sends an OutputEvent or a PlaybackPositionChanged notification.
C1_SilentAfterStop == [][stop_returned => ~ThreadEmits]_vars

\* C1 witness: stop() has joined a playback thread and returned, and
\* another context holds the output guard for a send of its own.
C1_Witness ==
    /\ stop_returned /\ ~playing
    /\ ctl.pc = "returned" /\ ctl.op = "stop" /\ ctl.handle # NoThread
    /\ caller = "locked"

\* The step in which play() runs.
PlayCalled == ctl.pc = "idle" /\ ctl'.pc = "returned" /\ ctl'.op = "play"

\* C2: at most one playback thread exists after any sequence of play, stop,
\* seek and set_clock_source; play() while Playing spawns no thread and
\* leaves the engine Playing; play() while Stopped makes it Playing with
\* exactly one thread.
C2_AtMostOneThread ==
    [][/\ Cardinality(Live') <= 1
       /\ PlayCalled =>
             IF playing
                THEN playing' /\ thr' = thr /\ playback_thread' = playback_thread
                ELSE playing' /\ Live = {} /\ Cardinality(Live') = 1]_vars

\* C2 witness: play() has returned without spawning, the engine was
\* playing already and its one thread is in its loop.
C2_Witness ==
    /\ ctl.pc = "returned" /\ ctl.op = "play" /\ ctl.handle = NoThread
    /\ playing
    /\ Cardinality(Live) = 1

\* C3: with sends that return and fair locks, a stop() that found the engine
\* Playing eventually returns, the engine Stopped and the thread exited.
C3_StopReturns ==
    (ctl.pc = "join" /\ ctl.op = "stop") ~>
        (ctl.pc = "returned" /\ ctl.op = "stop" /\ ~playing /\ Live = {})

\* C3 witness: stop() has returned from the join of a thread, the slot of
\* that thread is empty and the engine is Stopped.
C3_Witness ==
    /\ ctl.pc = "returned" /\ ctl.op = "stop" /\ ctl.handle # NoThread
    /\ thr[ctl.handle].pc = "none"
    /\ ~playing /\ Live = {}

\* The events of an iteration that end in a beat pulse: nothing, or a
\* note-on directly followed by the note-off of the same note and channel.
EndsInPulse(events) ==
    \/ events = <<>>
    \/ /\ Len(events) = 2
       /\ events[1].type = "MidiNoteOn" /\ events[2].type = "MidiNoteOff"
       /\ events[1].note = events[2].note
       /\ events[1].channel = events[2].channel

\* C4: within one iteration the OutputSystem receives the events in the
\* order of their generation, the note-on of the beat pulse directly before
\* its note-off, and no event of any other context in between.
C4_DispatchInOrder ==
    \A t \in ThreadIds :
        /\ thr[t].pc \in {"lock_output", "dispatch"} => EndsInPulse(thr[t].events)
        /\ thr[t].pc = "dispatch" =>
              received = [i \in 1..thr[t].sent |->
                             [from |-> ByThread(t), event |-> thr[t].events[i]]]

\* C4 witness: the thread has dispatched both events of a beat pulse and
\* still holds the output guard, while the other context waits to send.
C4_Witness ==
    \E t \in ThreadIds :
        /\ thr[t].pc = "dispatch" /\ thr[t].sent = 2
        /\ Len(received) = 2
        /\ caller = "idle"

(***************************************************************************)
(* Properties of the Timeline.                                             *)
(***************************************************************************)
IsQuery == outcome.op = "track_containers_in_range"

IsMove == outcome.op = "move_container"

\* The containers a query handed back.
Returned == {outcome.ret.result[i] : i \in 1..Len(outcome.ret.result)}

\* The containers of a track: the stored containers that add_container was
\* given for that track.  C5 and C6 are read for the tracks of the timeline.
ContainersOf(tid) == {c \in DOMAIN containers : containers[c].track = tid}

\* The entries <<track, key>> of the position indices that hold an id.
EntriesOf(cid) ==
    {e \in (DOMAIN track_containers) \X Positions :
        e[2] \in DOMAIN track_containers[e[1]] /\ track_containers[e[1]][e[2]] = cid}

\* C5: for start <= end, track_containers_in_range(track, start, end)
\* returns a container of that track that starts strictly before start if
\* and only if its position + length is strictly greater than start.
C5_OverlapIff ==
    (IsQuery /\ outcome.track \in KnownTrackIds /\ outcome.start <= outcome.end) =>
        \A c \in ContainersOf(outcome.track) :
            containers[c].position < outcome.start =>
                (c \in Returned <=>
                    containers[c].position + containers[c].length > outcome.start)

\* C6: track_containers_in_range(track, start, end) returns every container
\* of that track whose start position equals start.  The claim speaks of
\* every range argument; it is stated here for the ranges that hold at
\* least the tick start (start < end).
C6_InclusiveLowerBound ==
    (IsQuery /\ outcome.track \in KnownTrackIds /\ outcome.start < outcome.end) =>
        \A c \in ContainersOf(outcome.track) :
            containers[c].position = outcome.start => c \in Returned

\* C7: track_containers_in_range(track, start, end) never returns a
\* container whose start position equals end.
C7_ExclusiveUpperBound ==
    IsQuery => \A c \in Returned : containers[c].position # outcome.end

\* C8: every container id stored in any track's position index is also a
\* key of the timeline's container set.
C8_NoDanglingIndexEntry ==
    \A t \in DOMAIN track_containers :
        \A p \in DOMAIN track_containers[t] :
            track_containers[t][p] \in DOMAIN containers

\* C8 witness: a move has relocated an indexed container while another
\* container is stored as well.
C8_Witness ==
    /\ IsMove /\ outcome.ret
    /\ outcome.position # outcome.old_position
    /\ EntriesOf(outcome.id) # {}
    /\ Cardinality(DOMAIN containers) = 2

\* C9: every container in the timeline's container set is referenced by
\* exactly one entry of exactly one track's position index.
C9_EveryContainerIndexedOnce ==
    \A c \in DOMAIN containers : Cardinality(EntriesOf(c)) = 1

\* C10: move_container(id, new_pos) returns true exactly when a container
\* with that id exists in the container set; when it returns false the
\* container set and all track indices are unchanged.
C10_MoveReturnsFound ==
    [][(outcome = Idle /\ outcome'.op = "move_container") =>
          /\ outcome'.ret <=> (outcome'.id \in DOMAIN containers)
          /\ ~outcome'.ret =>
                (containers' = containers /\ track_containers' = track_containers)]_vars

\* A move has just returned true, away from the key it found the id under.
Relocated == IsMove /\ outcome.ret /\ outcome.position # outcome.old_position

\* The containers track_containers_in_range hands back for the one-tick
\* range [pos, pos + 1) of the track the move found the id in.
AtTick(pos) ==
    LET r == TrackContainersInRange(track_containers, containers,
                                    outcome.track, pos, pos + 1).result
    IN  {r[i] : i \in 1..Len(r)}

\* C11 as stated: after move_container(id, new_pos) returns true with new_pos
\* different from old_pos, the query over [old_pos, old_pos + 1) no longer
\* returns the container and the query over [new_pos, new_pos + 1) does.
C11_OldRangeForgets ==
    Relocated =>
        /\ outcome.id \notin AtTick(outcome.old_position)
        /\ outcome.id \in AtTick(outcome.position)

\* C11 amended: the query over [new_pos, new_pos + 1) returns the container;
\* the query over [old_pos, old_pos + 1) returns it exactly when the track's
\* index holds it under a key below old_pos and new_pos + length is greater
\* than old_pos, which for a container moved to an earlier position means
\* that it still reaches over old_pos.
C11_MoveThenQuery ==
    Relocated =>
        /\ outcome.id \in AtTick(outcome.position)
        /\ outcome.id \in AtTick(outcome.old_position) <=>
              /\ \E k \in KeysOf(track_containers[outcome.track], outcome.id) :
                    k < outcome.old_position
              /\ outcome.position + containers[outcome.id].length > outcome.old_position

\* C11 witness: a container indexed once has been moved to an earlier
\* position and still reaches over the position it was moved from.
C11_Witness ==
    /\ Relocated
    /\ Cardinality(EntriesOf(outcome.id)) = 1
    /\ outcome.position < outcome.old_position
    /\ outcome.id \in AtTick(outcome.old_position)

(***************************************************************************)
(* Properties of the EventScheduler.                                       *)
(***************************************************************************)
IsGetEvents == outcome.op = "get_events"

\* The calls scheduled at one position, as (position, event) pairs in call
\* order.
CallsAt(pos) == SelectSeq(schedule_calls, LAMBDA c : c.position = pos)

\* The calls with a position in [pos, end): position by position, each
\* position's calls in call order.
RECURSIVE DueInOrder(_, _)
DueInOrder(pos, end) ==
    IF pos >= end THEN <<>> ELSE CallsAt(pos) \o DueInOrder(pos + 1, end)

\* C12: for start <= end, get_events(start, end) returns exactly the events
\* scheduled at positions in [start, end), each with its position, in
\* non-decreasing position order and, within a position, in the order of
\* the schedule_event calls.
C12_GetEventsInOrder ==
    (IsGetEvents /\ outcome.start <= outcome.end) =>
        /\ ~outcome.ret.panicked
        /\ outcome.ret.result = DueInOrder(outcome.start, outcome.end)

\* C12 witness: a query has returned two different events of one position
\* and left out an event scheduled at its end.
C12_Witness ==
    /\ IsGetEvents /\ outcome.start < outcome.end
    /\ Len(outcome.ret.result) = 2
    /\ outcome.ret.result[1].position = outcome.ret.result[2].position
    /\ outcome.ret.result[1].event # outcome.ret.result[2].event
    /\ CallsAt(outcome.end) # <<>>

(***************************************************************************)
(* Properties of the TempoMap.                                             *)
(***************************************************************************)
IsLookup == outcome.op \in {"tempo_at", "time_signature_at"}

\* The calls of one kind made at or before a position, as indices into
\* tempo_calls.
CallsUpTo(kind, pos) ==
    {i \in 1..Len(tempo_calls) :
        tempo_calls[i].kind = kind /\ tempo_calls[i].position <= pos}

\* What the calls made so far say is in effect at a position: the value of
\* the latest call at the greatest position at or before it, and the
\* default of tick zero when there is no such call.
InEffect(kind, pos) ==
    LET idx == CallsUpTo(kind, pos)
        best == Max({tempo_calls[i].position : i \in idx})
        last == Max({i \in idx : tempo_calls[i].position = best})
    IN  IF idx = {}
           THEN (IF kind = "tempo" THEN DefaultBpm ELSE DefaultTimeSignature)
           ELSE tempo_calls[last].value

\* C13: after any sequence of add_tempo_change and add_time_signature_change
\* calls both maps have an entry at tick zero, and tempo_at(pos) and
\* time_signature_at(pos) succeed and return the value of the change with
\* the greatest position <= pos, the most recently added one for a repeated
\* position.
C13_LatestChangeWins ==
    /\ 0 \in DOMAIN tempo_changes
    /\ 0 \in DOMAIN time_signature_changes
    /\ IsLookup =>
          /\ ~outcome.ret.panicked
          /\ outcome.ret.value =
                InEffect(IF outcome.op = "tempo_at" THEN "tempo" ELSE "time_signature",
                         outcome.position)

\* C13 witness: tempo_at has answered for a position past a change that was
\* added twice with different tempos.
C13_Witness ==
    /\ outcome.op = "tempo_at"
    /\ outcome.position > outcome.ret.key
    /\ outcome.ret.key > 0
    /\ \E i \in 1..Len(tempo_calls) : \E j \in 1..Len(tempo_calls) :
          /\ i < j
          /\ tempo_calls[i].kind = "tempo" /\ tempo_calls[j].kind = "tempo"
          /\ tempo_calls[i].position = outcome.ret.key
          /\ tempo_calls[j].position = outcome.ret.key
          /\ tempo_calls[i].value # tempo_calls[j].value

IsRoundTrip == outcome.op = "round_trip"

\* Every tempo of the map is positive.
PositiveTempos == \A p \in DOMAIN tempo_changes : tempo_changes[p] > 0

\* C14: for every position p and every tempo map, with no, one, two or more
\* tempo changes, beats_to_position(position_to_beats(p)) is within one tick
\* of p.  Stated for the maps whose tempos are all positive.
C14_RoundTrip ==
    (IsRoundTrip /\ PositiveTempos) =>
        /\ outcome.ret - outcome.position <= 1
        /\ outcome.position - outcome.ret <= 1

IsPositionToBeats == outcome.op = "position_to_beats"

\* C15: for every tempo map reachable through add_tempo_change and all
\* positions p <= q, position_to_beats(p) <= position_to_beats(q), and
\* position_to_beats(0) = 0.
C15_BeatsMonotone ==
    IsPositionToBeats =>
        /\ outcome.position = 0 => outcome.ret = 0
        /\ \A p \in BeatPositions :
              p <= outcome.position =>
                  PositionToBeatsScaled(tempo_changes, p) <= outcome.ret

\* A step that adds a tempo change at the position of an existing one, with
\* twice its tempo: the segment that starts there keeps its tick span.
Doubles ==
    /\ outcome = Idle
    /\ outcome'.op = "add_tempo_change"
    /\ outcome'.position \in DOMAIN tempo_changes
    /\ outcome'.tempo = 2 * tempo_changes[outcome'.position]

\* The positions inside the segment that starts at the change.
InSegment(change_position) ==
    {p \in BeatPositions : LatestChange(tempo_changes, p).key = change_position}

\* The beats position_to_beats attributes to the ticks from p to q.
BeatsBetween(tm, p, q) == PositionToBeatsScaled(tm, q) - PositionToBeatsScaled(tm, p)

\* C16 as stated: doubling the tempo of a segment, its tick span fixed,
\* halves the number of beats position_to_beats attributes to the ticks
\* inside the segment.
C16_DoublingHalves ==
    [][Doubles =>
          \A p \in InSegment(outcome'.position) : \A q \in InSegment(outcome'.position) :
              p < q => 2 * BeatsBetween(tempo_changes', p, q)
                          = BeatsBetween(tempo_changes, p, q)]_vars

\* C16 amended: doubling the tempo of a segment, its tick span fixed,
\* doubles the number of beats position_to_beats attributes to the ticks
\* inside the segment.
C16_DoublingDoubles ==
    [][Doubles =>
          \A p \in InSegment(outcome'.position) : \A q \in InSegment(outcome'.position) :
              p < q => BeatsBetween(tempo_changes', p, q)
                          = 2 * BeatsBetween(tempo_changes, p, q)]_vars

\* C16 witness: the tempo of a segment that starts after tick zero has just
\* been doubled, and the segment holds more than one position.
C16_Witness ==
    /\ outcome.op = "add_tempo_change"
    /\ outcome.position > 0
    /\ Len(tempo_calls) = 2
    /\ tempo_calls[1].kind = "tempo"
    /\ tempo_calls[1].position = outcome.position
    /\ outcome.tempo = 2 * tempo_calls[1].value
    /\ Cardinality(InSegment(outcome.position)) > 1

(***************************************************************************)
(* Properties of TimePosition.                                             *)
(***************************************************************************)
IsSubtraction == outcome.op \in {"sub", "sub_assign"}

IsAddition == outcome.op \in {"add", "add_assign"}

\* C17: for all TimePositions a and b, a - b and a -= b yield max(a - b, 0)
\* ticks, and a + b and a += b never wrap: a tick count that comes out of
\* an addition is the sum, not the sum reduced modulo 2^64.
C17_NeverWraps ==
    /\ IsSubtraction =>
          /\ ~outcome.ret.panicked
          /\ IF Less(outcome.a, outcome.b)
                THEN outcome.ret.value = Ticks(0)
                ELSE /\ ~Overflows(outcome.ret.value, outcome.b)
                     /\ WrappingAdd(outcome.ret.value, outcome.b) = outcome.a
    /\ (IsAddition /\ ~outcome.ret.panicked) =>
          /\ ~Less(outcome.ret.value, outcome.b)
          /\ WrappingSub(outcome.ret.value, outcome.b) = outcome.a

(***************************************************************************)
(* The playback scenario.                                                  *)
(***************************************************************************)
\* The project of the scenario: 120 BPM from tick zero and a container of
\* four beats indexed at position 0.
ScenarioProject ==
    /\ tempo_changes = ProjectTempoMap
    /\ \E c \in DOMAIN containers :
          /\ containers[c].position = 0
          /\ containers[c].length = 4 * TicksPerBeat
          /\ EntriesOf(c) # {}

\* Half a second of wall-clock time as a position.
HalfSecond == ReferenceSampleRate \div 2

\* C18: in the scenario project, playback started from tick 0, the loop
\* iteration whose clock reading is 0.5 s finds position_to_beats at 1.0 and
\* generates the one note-on/note-off pair of that window, at pitch 60.
C18_FirstPulseAtBase ==
    [][\A t \in ThreadIds :
          (/\ ThreadGenerate(t)
           /\ ScenarioProject
           /\ thr[t].last_position = 0
           /\ thr[t].current_position = HalfSecond) =>
              /\ PositionToBeatsScaled(tempo_changes, thr[t].current_position)
                    = SecondsPerMinute * ReferenceSampleRate
              /\ thr'[t].pc = "lock_output"
              /\ thr'[t].events = PulseEvents(PulseBase)]_vars

(***************************************************************************)
(* Seeking.                                                                *)
(***************************************************************************)
\* The last call was seek and its caller has not yet gone on.
SeekReturned == ctl.pc = "returned" /\ ctl.op = "seek"

\* C19: seek(pos) leaves the play state as it is, and while the engine is
\* playing the first elapsed-time sample the loop takes after seek(pos) has
\* returned, which is the next position it publishes, is at or after pos.
C19_SeekReanchors ==
    [][/\ Seek => /\ playing' = playing
                  /\ playback_thread' = playback_thread
       /\ \A t \in ThreadIds :
             (/\ SeekReturned
              /\ playing
              /\ playback_thread = t
              /\ ThreadCheck(t)) =>
                 thr'[t].current_position >= ctl.position]_vars

(***************************************************************************)
(* Changing the clock source.                                              *)
(***************************************************************************)
\* set_clock_source has returned and its caller has not yet gone on.
SetClockSourceReturned == ctl.pc = "returned" /\ ctl.op = "set_clock_source"

\* C20: when set_clock_source returns, the engine is Stopped, no playback
\* thread is left (the one it found was joined) and the clock source is the
\* one it was given; called while Stopped it changes the clock source and
\* nothing else of the engine.
C20_SetClockSourceStops ==
    /\ [](SetClockSourceReturned =>
             /\ ~playing
             /\ playback_thread = NoThread
             /\ Live = {}
             /\ ctl.handle # NoThread => thr[ctl.handle].pc = "none"
             /\ clock_source = ctl.source)
    /\ [][(SetClockSource /\ ~playing) =>
             /\ clock_source' = ctl'.source
             /\ UNCHANGED <<playing, playback_thread, thr, proj_readers,
                            out_lock, received>>]_vars

\* C20 witness: set_clock_source found the engine Playing and has returned
\* from the join of its thread with another clock source installed.
C20_Witness ==
    /\ SetClockSourceReturned
    /\ ctl.handle # NoThread
    /\ thr[ctl.handle].pc = "none"
    /\ ~playing
    /\ clock_source = "MidiTimeCode"

(***************************************************************************)
(* The output system.                                                      *)
(***************************************************************************)
IsSend == outcome.op = "send_event"

\* The endpoints the returned send_event called, and those that got bytes.
Attempted == {outcome.attempts[i] : i \in DOMAIN outcome.attempts}

Reached == {outcome.wire[i].to : i \in DOMAIN outcome.wire}

\* C21: send_event with a target attempts delivery to that endpoint only
\* and returns exactly one result; with a target that is not registered the
\* result is the not-found error and no endpoint gets the event.
C21_TargetedSend ==
    (IsSend /\ outcome.event.target # None) =>
        /\ Len(outcome.results) = 1
        /\ Attempted \subseteq {outcome.event.target}
        /\ Reached \subseteq Attempted
        /\ outcome.event.target \in DOMAIN endpoints =>
              outcome.attempts = <<outcome.event.target>>
        /\ outcome.event.target \notin DOMAIN endpoints =>
              /\ outcome.results = <<ErrNotFound>>
              /\ Attempted = {}
              /\ Reached = {}

\* The claim's reading of "the endpoint's type accepts the event's category".
CategoryAccepted(id, e) ==
    \/ e.type \in MidiTypes /\ endpoint_type(endpoints[id]) = "Midi"
    \/ e.type = "AudioBuffer" /\ endpoint_type(endpoints[id]) = "Audio"

\* C22: send_event without a target attempts delivery to every registered
\* endpoint whose type accepts the event's category, connected or not, once
\* each, and returns one result per attempt; an event of another kind goes
\* to no endpoint and yields no result.
C22_Broadcast ==
    (IsSend /\ outcome.event.target = None) =>
        /\ Attempted =
              {id \in DOMAIN endpoints : CategoryAccepted(id, outcome.event.event_type)}
        /\ Len(outcome.attempts) = Cardinality(Attempted)
        /\ Len(outcome.results) = Len(outcome.attempts)
        /\ Reached \subseteq Attempted

\* C23: a send to an endpoint that is not connected returns an error and
\* no bytes go out; bytes go out to connected endpoints only; an endpoint
\* just registered or just disconnected reports is_connected = false.
C23_DisconnectedFails ==
    /\ IsSend =>
          /\ \A i \in DOMAIN outcome.attempts :
                ~is_connected(endpoints[outcome.attempts[i]]) =>
                    /\ i \in DOMAIN outcome.results
                    /\ outcome.results[i] # Ok
                    /\ outcome.attempts[i] \notin Reached
          /\ \A id \in Reached : is_connected(endpoints[id])
    /\ (outcome.op = "add_endpoint" /\ outcome.ret = Ok) =>
          ~is_endpoint_connected(endpoints, outcome.config.id)
    /\ outcome.op = "disconnect_endpoint" =>
          ~is_endpoint_connected(endpoints, outcome.id)

IsAddEndpoint == outcome.op = "add_endpoint"

\* The form "<integer port index>:<port name>" as the claim has it: there
\* is a ':' and what stands before the first one is an integer numeral, a
\* port index when it has no minus sign.
HasSeparator(d) == \E i \in DOMAIN d : d[i] = ":"

IndexPart(d) ==
    LET first == Min({i \in DOMAIN d : d[i] = ":"})
    IN  SubSeq(d, 1, first - 1)

IsNumeral(s) == s # <<>> /\ \A i \in DOMAIN s : s[i] \in DOMAIN Digits

IsInteger(s) ==
    \/ IsNumeral(s)
    \/ s # <<>> /\ Head(s) \in {"+", "-"} /\ IsNumeral(Tail(s))

Malformed(d) == ~HasSeparator(d) \/ ~IsInteger(IndexPart(d))

WellFormed(d) ==
    /\ HasSeparator(d)
    /\ IsInteger(IndexPart(d))
    /\ Head(IndexPart(d)) # "-"

ClaimedStatus ==
    [MidiNoteOn |-> StatusNoteOn, MidiNoteOff |-> StatusNoteOff,
     MidiControlChange |-> StatusControlChange,
     MidiProgramChange |-> StatusProgramChange,
     MidiAftertouch |-> StatusAftertouch,
     MidiPolyAftertouch |-> StatusPolyAftertouch]

ClaimedData(e) ==
    CASE e.type = "MidiNoteOn" -> <<e.note, e.velocity>>
      [] e.type = "MidiNoteOff" -> <<e.note, 0>>
      [] e.type = "MidiControlChange" -> <<e.controller, e.value>>
      [] e.type = "MidiProgramChange" -> <<e.program>>
      [] e.type = "MidiAftertouch" -> <<e.pressure>>
      [] e.type = "MidiPolyAftertouch" -> <<e.note, e.pressure>>

\* The channel in the low nibble of the status byte, and only there.
ClaimedBytes(e) ==
    <<ClaimedStatus[e.type] + (e.channel % (ChannelMask + 1))>> \o ClaimedData(e)

Transmitted == {outcome.wire[i] : i \in DOMAIN outcome.wire}

\* C25: a connected MIDI endpoint that takes a note-on, note-off, control
\* change, program change, channel aftertouch or poly aftertouch transmits
\* the status byte of the kind with the channel in its low nibble, then the
\* data bytes, and nothing else; an event of a non-MIDI kind is refused
\* with an error and no bytes go out.
C25_ChannelMessages ==
    IsSend =>
        LET e == outcome.event.event_type
        IN  /\ e.type \in DOMAIN ClaimedStatus =>
                  /\ \A i \in DOMAIN outcome.attempts :
                        (outcome.results[i] = Ok) =
                            ([to |-> outcome.attempts[i],
                              message |-> ClaimedBytes(e)] \in Transmitted)
                  /\ \A w \in Transmitted :
                        /\ w.message = ClaimedBytes(e)
                        /\ w.message[1] \div (ChannelMask + 1)
                              = ClaimedStatus[e.type] \div (ChannelMask + 1)
                  /\ Len(outcome.wire) = Cardinality(Reached)
            /\ e.type \notin MidiTypes =>
                  /\ Transmitted = {}
                  /\ \A i \in DOMAIN outcome.results : outcome.results[i] # Ok

\* C25 witness: a note-off on channel 15 has gone out to a connected
\* endpoint as three bytes.
C25_Witness ==
    /\ IsSend
    /\ outcome.event.event_type.type = "MidiNoteOff"
    /\ outcome.event.event_type.channel = ChannelMask
    /\ outcome.results = <<Ok>>
    /\ Len(outcome.wire) = 1
    /\ Len(outcome.wire[1].message) = 3

\* The 14-bit value of a bend: value + 8192, as seven low and seven high bits.
ClaimedBend(value) ==
    LET radix == DataMask + 1
        u == (value + BendCenter + U16Modulus) % (radix * radix)
    IN  <<u % radix, u \div radix>>

IsBendSent == IsSend /\ outcome.event.event_type.type = "MidiPitchBend"

\* C26: for every i16 bend value and every channel the bytes of a pitch
\* bend are 0xE0 | ch, then the low and the high seven bits of value + 8192,
\* and the sum is computed without overflow.
C26_PitchBend ==
    IsBendSent =>
        LET e == outcome.event.event_type
        IN  /\ ~outcome.panicked
            /\ \A w \in Transmitted :
                  w.message = <<StatusPitchBend + (e.channel % (ChannelMask + 1))>>
                                  \o ClaimedBend(e.value)

(***************************************************************************)
(* The controller.                                                         *)
(***************************************************************************)
\* The step is handle_command(command).
Handles(command) == handled' = Append(handled, command)

\* The observers registered with the hub.
Registered == {receivers[i] : i \in DOMAIN receivers}

\* The hub dispatches exactly `event` in the step, and every registered
\* observer that is open finds it appended to its channel.
DispatchesOnly(event) ==
    /\ dispatched' = Append(dispatched, event)
    /\ \A o \in ObserverIds :
          inbox'[o] = IF o \in Registered /\ rx_open[o]
                         THEN Append(inbox[o], event)
                         ELSE inbox[o]

DispatchesNothing == dispatched' = dispatched /\ inbox' = inbox

\* The project, the engine and the endpoint registry.
ProjectUnchanged ==
    UNCHANGED <<tracks, containers, track_containers, tempoVars, active_timeline>>

HandledTypes ==
    {"CreateProject", "AddTrack", "MoveContainer", "ResizeContainer", "Play",
     "Stop", "Seek", "Shutdown"}

\* C27: a command without a handler produces exactly one Error event,
\* dispatched to the observers, and changes nothing of the project, the
\* engine or the endpoint registry.
C27_UnhandledIsError ==
    [][\A command \in Commands :
          (Handles(command) /\ command.type \notin HandledTypes) =>
              /\ DispatchesOnly(Error(command))
              /\ ProjectUnchanged
              /\ UNCHANGED <<engineVars, outputVars>>]_vars

\* C27 witness: the last command handled was a Pause, and the first
\* observer has its Error event as the newest in its channel.
C27_Witness ==
    /\ handled # <<>>
    /\ handled[Len(handled)].type = "Pause"
    /\ receivers # <<>>
    /\ inbox[receivers[1]] # <<>>
    /\ inbox[receivers[1]][Len(inbox[receivers[1]])] = Error(handled[Len(handled)])

IsContainerCommand(command) == command.type \in {"MoveContainer", "ResizeContainer"}

\* The event of a container command and the change it reports.
ContainerEvent(command) ==
    IF command.type = "MoveContainer"
        THEN ContainerMoved(command.container_id, command.new_position)
        ELSE ContainerResized(command.container_id, command.new_length)

Applied(command) ==
    /\ command.container_id \in DOMAIN containers'
    /\ IF command.type = "MoveContainer"
          THEN containers'[command.container_id].position = command.new_position
          ELSE containers'[command.container_id].length = command.new_length

\* C28: a MoveContainer or ResizeContainer for a container id that is not
\* in the active timeline, or with no active timeline, leaves the loop
\* running and the project as it was and dispatches nothing; an event of
\* either command is dispatched only with the change applied in the same
\* step.
C28_ContainerCommands ==
    [][\A command \in Commands :
          (Handles(command) /\ IsContainerCommand(command)) =>
              /\ (~active_timeline \/ command.container_id \notin DOMAIN containers) =>
                    /\ ProjectUnchanged
                    /\ DispatchesNothing
                    /\ control_loop' = "loop" /\ running'
              /\ ~DispatchesNothing =>
                    /\ DispatchesOnly(ContainerEvent(command))
                    /\ active_timeline
                    /\ Applied(command)]_vars

\* C28 witness: a ContainerMoved event is the newest dispatched, for a
\* container that stood elsewhere and now stands at the event's position.
C28_Witness ==
    /\ dispatched # <<>>
    /\ LET event == dispatched[Len(dispatched)]
       IN  /\ event.type = "ContainerMoved"
           /\ outcome = [op |-> "move_container", id |-> event.container_id,
                         position |-> event.position, ret |-> TRUE,
                         track |-> outcome.track, old_position |-> outcome.old_position]
           /\ outcome.old_position # event.position
           /\ containers[event.container_id].position = event.position

ShutdownHandled == \E i \in DOMAIN handled : handled[i].type = "Shutdown"

Exited == control_loop = "exited"

\* C29: the control loop ends once every sender of the command channel is
\* gone, and when it ends for that reason every command sent has been
\* handled; each iteration handles the oldest command of the queue and no
\* other, and a command leaves the queue only by being handled; the loop
\* also ends after it has handled a Shutdown.
C29_LoopTerminates ==
    /\ []((Exited /\ ~ShutdownHandled) => (~senders_open /\ command_queue = <<>>))
    /\ [][/\ handled' # handled =>
                /\ command_queue # <<>>
                /\ handled' = Append(handled, Head(command_queue))
                /\ command_queue' = Tail(command_queue)
          /\ handled' = handled =>
                \/ command_queue' = command_queue
                \/ \E command \in Commands :
                      command_queue' = Append(command_queue, command)]_vars
    /\ ~senders_open ~> Exited
    /\ ShutdownHandled ~> Exited

\* C29 witness: the loop has ended on the closed channel after handling two
\* commands or more, none of them a Shutdown.
C29_Witness ==
    /\ Exited
    /\ ~senders_open
    /\ ~ShutdownHandled
    /\ Len(handled) >= 2

\* The events of `box` are consecutive events of `all`, in the same order.
IsSegment(box, all) ==
    \E i \in 1..(Len(all) + 1) :
        /\ i + Len(box) - 1 <= Len(all)
        /\ box = SubSeq(all, i, i + Len(box) - 1)

\* C30: a dispatch appends the event to the channel of every registered
\* observer that is still open and to no other, whatever closed observers
\* stand before it in the hub; so each observer holds events of the hub in
\* dispatch order, none left out between two it holds.
C30_DispatchReachesOpen ==
    /\ [][\A event \in HubEvents :
             dispatched' = Append(dispatched, event) => DispatchesOnly(event)]_vars
    /\ [](\A o \in ObserverIds :
             /\ IsSegment(inbox[o], dispatched)
             /\ (o \in Registered /\ rx_open[o] /\ inbox[o] # <<>>) =>
                   inbox[o][Len(inbox[o])] = dispatched[Len(dispatched)])

\* C30 witness: the first observer of the hub has closed, and the second
\* holds an event that was dispatched after that.
C30_Witness ==
    /\ Len(receivers) >= 2
    /\ ~rx_open[receivers[1]]
    /\ rx_open[receivers[2]]
    /\ Len(inbox[receivers[2]]) > Len(inbox[receivers[1]])
    /\ inbox[receivers[2]] = dispatched

(***************************************************************************)
(* Controller::create_project_snapshot.  It is called in the control       *)
(* context between two engine calls: it takes a read guard of the project  *)
(* and one of the engine, and drops both when it returns or unwinds.       *)
(* Every ClockSource of the program answers current_time() with todo!().   *)
(***************************************************************************)
\* ClockSource::current_time
current_time(source) == [panicked |-> TRUE, position |-> 0]

\* PlaybackEngine::current_position
current_position(source) == current_time(source)

\* PlaybackEngine::is_playing
is_playing(flag) == flag

\* Option<TimePosition> of the snapshot.
NoPosition == [some |-> FALSE, position |-> 0]

SomePosition(position) == [some |-> TRUE, position |-> position]

\* TimelineSnapshot::from_timeline: the tracks in order, and for each the
\* containers of its index, in key order, that are stored.
from_timeline(ts, cs, tc, playback_position) ==
    [some |-> TRUE,
     tracks |-> ts,
     containers |->
        [t \in {ts[i] : i \in DOMAIN ts} |->
            IF t \in DOMAIN tc
                THEN SelectSeq([i \in 1..Cardinality(DOMAIN tc[t]) |->
                                   tc[t][Ascending(DOMAIN tc[t])[i]]],
                               LAMBDA cid : cid \in DOMAIN cs)
                ELSE <<>>],
     playback_position |-> playback_position]

NoTimeline ==
    [some |-> FALSE, tracks |-> <<>>, containers |-> EmptyMap,
     playback_position |-> NoPosition]

\* The value create_project_snapshot returns, or the panic that ends it.
create_project_snapshot ==
    IF active_timeline
        THEN IF is_playing(playing)
                THEN LET now == current_position(clock_source) IN
                     IF now.panicked
                        THEN [panicked |-> TRUE, active_timeline |-> NoTimeline]
                        ELSE [panicked |-> FALSE,
                              active_timeline |->
                                 from_timeline(tracks, containers, track_containers,
                                               SomePosition(now.position))]
                ELSE [panicked |-> FALSE,
                      active_timeline |->
                         from_timeline(tracks, containers, track_containers,
                                       NoPosition)]
        ELSE [panicked |-> FALSE, active_timeline |-> NoTimeline]

CreateProjectSnapshot ==
    /\ ctl.pc = "idle"
    /\ outcome = Idle
    /\ outcome' = [op |-> "create_project_snapshot", playing |-> playing,
                   ret |-> create_project_snapshot]
    /\ UNCHANGED <<tracks, containers, track_containers, adds>>
    /\ UNCHANGED <<engineVars, schedulerVars, tempoVars, outputVars, controllerVars>>

SnapshotNext ==
    \/ CreateProjectSnapshot
    \/ DropResult
    \/ Play
    \/ Stop
    \/ Join
    \/ Return
    \/ \E t \in ThreadIds : ThreadStep(t)
    \/ ProjectAddTrack
    \/ ProjectAddContainer

SpecSnapshot == Init /\ [][SnapshotNext]_vars

IsSnapshot == outcome.op = "create_project_snapshot"

\* C31: every call of create_project_snapshot returns a snapshot; made while
\* the engine is Playing, the snapshot of the active timeline carries a
\* playback position, and made while it is Stopped, it carries none.
C31_SnapshotAlways ==
    IsSnapshot =>
        /\ ~outcome.ret.panicked
        /\ outcome.ret.active_timeline.some =>
              outcome.ret.active_timeline.playback_position.some = outcome.playing

\* The Stopped half of C31, which the code keeps.
C31_StoppedSnapshot ==
    (IsSnapshot /\ ~outcome.playing) =>
        /\ ~outcome.ret.panicked
        /\ outcome.ret.active_timeline.some
        /\ ~outcome.ret.active_timeline.playback_position.some

\* The thread has just published the position of its iteration.
Published(t) == thr[t].pc = "generate"

\* The thread is about to publish the position of a new iteration.
Publishing(t) == thr[t].pc = "publish"

\* C32: while the engine stays Playing, every iteration of the playback
\* loop is followed by another one that publishes its position, whatever
\* containers lie in the window.
C32_KeepsIterating ==
    \A t \in ThreadIds :
        (Published(t) /\ playing) ~> (Publishing(t) \/ ~playing)

\* The same with a timeline that never holds a container.
C32_KeepsIteratingEmpty ==
    [](containers = EmptyMap) => C32_KeepsIterating

(***************************************************************************)
(* Controller::handle_move_container beside the playback thread.  The      *)
(* handler takes project.write(), which waits until no read guard is held, *)
(* and Timeline::move_container then makes three writes under that guard:  *)
(* the stored position, the removal of the old key, the insertion of the   *)
(* new one.  The guard is dropped at the end of the block and the event    *)
(* follows a move that returned true.                                      *)
(***************************************************************************)
\* The move in progress or just returned, kept by the control context.
MoveCall(pc, cid, new_position, tid, old_pos, ret) ==
    [pc |-> pc, op |-> "move_container", handle |-> NoThread, source |-> "none",
     position |-> new_position, id |-> cid, track |-> tid,
     old_position |-> old_pos, ret |-> ret]

\* The moves that succeed beside the playback thread.
MaxMoves == 1

\* The scan for the id; when it finds none, or the id is not stored, the
\* call returns false with nothing written.
MoveBegin ==
    /\ ctl.pc = "idle"
    /\ proj_readers = {}
    /\ Len(dispatched) < MaxMoves
    /\ active_timeline
    /\ \E cid \in ContainerIds, new_position \in SeekPositions :
          \/ /\ TracksHolding(track_containers, cid) = {}
             /\ ctl' = MoveCall("returned", cid, new_position, StrayTrackId, 0, FALSE)
          \/ \E tid \in TracksHolding(track_containers, cid) :
                LET old_pos == Min(KeysOf(track_containers[tid], cid)) IN
                ctl' = IF cid \in DOMAIN containers
                          THEN MoveCall("move_store", cid, new_position, tid, old_pos, FALSE)
                          ELSE MoveCall("returned", cid, new_position, tid, old_pos, FALSE)
    /\ UNCHANGED <<playing, playback_thread, clock_source, thr, proj_readers,
                   out_lock, received, caller, stop_returned>>
    /\ UNCHANGED <<timelineVars, schedulerVars, tempoVars, outputVars, controllerVars>>

\* container.position = new_position
MoveStore ==
    /\ ctl.pc = "move_store"
    /\ containers' = [containers EXCEPT ![ctl.id].position = ctl.position]
    /\ ctl' = [ctl EXCEPT !.pc = "move_remove"]
    /\ UNCHANGED <<tracks, track_containers, adds, outcome>>
    /\ UNCHANGED <<playing, playback_thread, clock_source, thr, proj_readers,
                   out_lock, received, caller, stop_returned>>
    /\ UNCHANGED <<schedulerVars, tempoVars, outputVars, controllerVars>>

\* track_map.remove(&old_pos)
MoveRemove ==
    /\ ctl.pc = "move_remove"
    /\ track_containers' =
          [track_containers EXCEPT ![ctl.track] = MapRemove(@, ctl.old_position)]
    /\ ctl' = [ctl EXCEPT !.pc = "move_insert"]
    /\ UNCHANGED <<tracks, containers, adds, outcome>>
    /\ UNCHANGED <<playing, playback_thread, clock_source, thr, proj_readers,
                   out_lock, received, caller, stop_returned>>
    /\ UNCHANGED <<schedulerVars, tempoVars, outputVars, controllerVars>>

\* track_map.insert(new_position, id); return true; the write guard is
\* dropped and ContainerMoved is dispatched.
MoveInsert ==
    /\ ctl.pc = "move_insert"
    /\ track_containers' =
          [track_containers EXCEPT ![ctl.track] = MapInsert(@, ctl.position, ctl.id)]
    /\ ctl' = [ctl EXCEPT !.pc = "returned", !.ret = TRUE]
    /\ IF MoveSucceeded(TRUE)
          THEN dispatch(ContainerMoved(ctl.id, ctl.position))
          ELSE NoDispatch
    /\ UNCHANGED <<tracks, containers, adds, outcome>>
    /\ UNCHANGED <<playing, playback_thread, clock_source, thr, proj_readers,
                   out_lock, received, caller, stop_returned>>
    /\ UNCHANGED <<schedulerVars, tempoVars, outputVars>>
    /\ UNCHANGED <<command_queue, senders_open, running, control_loop, handled,
                   receivers, rx_open, active_timeline>>

MoveNext ==
    \/ MoveBegin
    \/ MoveStore
    \/ MoveRemove
    \/ MoveInsert
    \/ Play
    \/ Stop
    \/ Join
    \/ Return
    \/ \E t \in ThreadIds : ThreadStep(t)
    \/ ProjectAddTrack
    \/ ProjectAddContainer

SpecMove == Init /\ [][MoveNext]_vars

\* Every entry of every track's index names a stored container whose
\* position is the entry's key.
IndexAgrees(tc, cs) ==
    \A t \in DOMAIN tc : \A pos \in DOMAIN tc[t] :
        /\ tc[t][pos] \in DOMAIN cs
        /\ cs[tc[t][pos]].position = pos

\* The container of the move is indexed in its track under `pos` and under
\* no other key, and its stored position is `pos`.
IndexedAt(tc, cs, call, pos) ==
    /\ KeysOf(tc[call.track], call.id) = {pos}
    /\ cs[call.id].position = pos

\* C33: while a playback thread holds the read guard of the project, no
\* move is between two of its writes and every index entry agrees with the
\* stored position of its container; a move leaves its container indexed
\* under the old position until it takes the write guard and under the new
\* one when it drops it.
C33_MoveAtomic ==
    /\ [](proj_readers # {} =>
             /\ ~Moving
             /\ IndexAgrees(track_containers, containers))
    /\ [][/\ (ctl.pc = "idle" /\ ctl'.pc = "move_store") =>
                IndexedAt(track_containers, containers, ctl', ctl'.old_position)
          /\ (ctl.pc = "move_insert" /\ ctl'.pc = "returned") =>
                IndexedAt(track_containers', containers', ctl', ctl'.position)]_vars

\* C33 witness: a playback thread reads the project after a move to another
\* position has returned.
C33_Witness ==
    /\ proj_readers # {}
    /\ ctl.pc = "returned"
    /\ ctl.op = "move_container"
    /\ ctl.ret
    /\ ctl.position # ctl.old_position
    /\ IndexedAt(track_containers, containers, ctl, ctl.position)

\* The guards a playback thread holds.
HoldsProject(t) == t \in proj_readers

HoldsOutput(t) == out_lock = ByThread(t)

\* The playback thread holds at most one of the two guards, none while it
\* sleeps, and the output guard exactly during its dispatch block.
LockDiscipline ==
    \A t \in ThreadIds :
        /\ ~(HoldsProject(t) /\ HoldsOutput(t))
        /\ thr[t].pc = "sleep" => (~HoldsProject(t) /\ ~HoldsOutput(t))
        /\ HoldsOutput(t) <=> thr[t].pc = "dispatch"
        /\ HoldsProject(t) <=> thr[t].pc \in {"publish", "generate"}

\* The output guard is taken for the events of one iteration: it is taken
\* with none of them sent, each send is the next of them, and it is dropped
\* when all are sent, before last_position advances.
OneDispatchPerGuard ==
    \A t \in ThreadIds :
        /\ (~HoldsOutput(t) /\ HoldsOutput(t)') =>
              (thr[t].pc = "lock_output" /\ thr'[t].sent = 0
                 /\ thr'[t].events = thr[t].events)
        /\ (HoldsOutput(t) /\ HoldsOutput(t)') =>
              (thr'[t].events = thr[t].events /\ thr'[t].sent >= thr[t].sent
                 /\ thr'[t].last_position = thr[t].last_position)
        /\ (HoldsOutput(t) /\ ~HoldsOutput(t)') =>
              (thr[t].sent = Len(thr[t].events) /\ thr'[t].pc = "sleep")

\* The control context waits in join() for a thread that has not finished.
ControlWaits == ctl.pc = "join" /\ ~Finished(thr[ctl.handle])

\* The thread can take a step, or it waits for the output guard and the
\* context holding the guard can take one.
CanProceed(t) ==
    \/ ENABLED ThreadStep(t)
    \/ /\ thr[t].pc = "lock_output"
       /\ \/ out_lock = ByCaller /\ ENABLED (CallerSend \/ CallerUnlock)
          \/ \E u \in ThreadIds \ {t} : HoldsOutput(u) /\ ENABLED ThreadStep(u)

\* C34: the playback thread never holds the project read guard together
\* with the output write guard, holds neither while it sleeps, and holds the
\* output guard only for the dispatch of one iteration; and while the
\* control context joins the thread in stop(), the thread is never stuck
\* behind something the control context holds.
C34_NoLockCycle ==
    /\ []LockDiscipline
    /\ [][OneDispatchPerGuard]_vars
    /\ [](ControlWaits => CanProceed(ctl.handle))
    /\ [](\A t \in Live : CanProceed(t))

\* C34 witness: the control context is joining a thread that waits for the
\* output guard while another context holds it.
C34_Witness ==
    /\ ControlWaits
    /\ thr[ctl.handle].pc = "lock_output"
    /\ out_lock = ByCaller
    /\ Len(thr[ctl.handle].events) > 0

\* The thread ends the generation of its iteration's events.
Generates(t) == thr[t].pc = "generate" /\ thr'[t].pc # "generate"

\* The integer beat number rose between the two ends of the thread's window.
BeatRose(t) ==
    BeatFloor(tempo_changes, thr[t].current_position) >
        BeatFloor(tempo_changes, thr[t].last_position)

\* One beat pulse: a note-on of velocity 100 on channel 0, then the
\* note-off of the same pitch on channel 0.
IsPulse(events) ==
    /\ Len(events) = 2
    /\ events[1].type = "MidiNoteOn"
    /\ events[1].channel = 0
    /\ events[1].velocity = 100
    /\ events[2].type = "MidiNoteOff"
    /\ events[2].channel = 0
    /\ events[2].note = events[1].note

\* C35: an iteration generates exactly one beat pulse when the integer beat
\* number at current_position is greater than at last_position, and no
\* pulse otherwise, whatever containers lie in the window.
C35_OnePulsePerCrossing ==
    [][\A t \in ThreadIds :
          Generates(t) =>
              IF BeatRose(t)
                 THEN IsPulse(thr'[t].events)
                 ELSE thr'[t].events = <<>>]_vars

\* The same for the iterations whose window holds no container.
C35_OnePulseEmptyWindow ==
    [][\A t \in ThreadIds :
          (Generates(t) /\ thr'[t].pc # "panicked") =>
              IF BeatRose(t)
                 THEN IsPulse(thr'[t].events)
                 ELSE thr'[t].events = <<>>]_vars

(***************************************************************************)
(* The note of the test tone as a function of the beat number: the pulse   *)
(* the loop pushes in an iteration whose current_position lies in beat     *)
(* `beat`.                                                                 *)
(***************************************************************************)
MaxBeat == 300

TestTone ==
    /\ outcome = Idle
    /\ \E beat \in 1..MaxBeat :
          outcome' = [op |-> "test_tone", beat |-> beat,
                      events |-> PulseEvents(PulseNote(beat))]
    /\ UNCHANGED <<tracks, containers, track_containers, adds>>
    /\ UNCHANGED <<engineVars, schedulerVars, tempoVars, outputVars, controllerVars>>

TestToneNext == TestTone \/ DropResult

SpecTestTone == Init /\ [][TestToneNext]_vars

IsTestTone == outcome.op = "test_tone"

\* C36: the pulse emitted at beat number n has pitch 60 + (n mod 12), for
\* every n, those of 256 and above included, and so lies in 60..71.
C36_PitchCycles ==
    IsTestTone =>
        /\ outcome.events[1].note = 60 + (outcome.beat % 12)
        /\ outcome.events[2].note = outcome.events[1].note
        /\ outcome.events[1].note \in 60..71

\* The pitch up to beat 255, and its range at every beat.
C36_PitchBelow256 ==
    IsTestTone =>
        /\ outcome.beat <= 255 => outcome.events[1].note = 60 + (outcome.beat % 12)
        /\ outcome.beat >= 255 => outcome.events[1].note = 63
        /\ outcome.events[1].note \in 60..71

\* The thread is inside an iteration: its window is
\* [last_position, current_position).
InWindow(t) ==
    thr[t].pc \in {"read_project", "publish", "generate", "lock_output", "dispatch"}

\* C37: a session's first window starts at tick 0, every window has
\* last_position <= current_position, a window starts where the one before
\* it ended, so the published positions never decrease, and a play() starts
\* its session at tick 0 again.
C37_ContiguousWindows ==
    /\ [](\A t \in ThreadIds :
             InWindow(t) => thr[t].last_position <= thr[t].current_position)
    /\ [][\A t \in ThreadIds :
             /\ (thr[t].pc = "none" /\ thr'[t].pc # "none") =>
                   (thr'[t].pc = "check" /\ thr'[t].last_position = 0)
             /\ (InWindow(t) /\ thr'[t].pc = "sleep") =>
                   thr'[t].last_position = thr[t].current_position
             /\ (thr'[t].last_position # thr[t].last_position) =>
                   \/ InWindow(t) /\ thr'[t].pc = "sleep"
                   \/ thr'[t].pc \in {"none", "done", "panicked"}
                         /\ thr'[t].last_position = 0
             /\ (thr[t].pc = "publish" /\ thr'[t].pc = "generate") =>
                   (thr[t].current_position >= thr[t].last_position
                      /\ thr'[t].current_position = thr[t].current_position)]_vars

\* C37 witness: a thread publishes the position of a window that starts
\* where its first window ended, after tick 0.
C37_Witness ==
    \E t \in ThreadIds :
        /\ thr[t].pc = "publish"
        /\ thr[t].last_position > 0
        /\ thr[t].current_position > thr[t].last_position

(***************************************************************************)
(* A play session as an observer sees it.  The engine's event_sender and   *)
(* a sender registered with the hub feed the same channel: the observer    *)
(* finds PlaybackPositionChanged from the playback thread and the hub's    *)
(* events in the order in which they were sent.  handle_play and           *)
(* handle_stop dispatch after the engine call has returned; the playback   *)
(* thread runs from the moment play() spawns it.                           *)
(***************************************************************************)
MaxInbox == 4

\* The observer whose sender PlaybackEngine::new was given.
EngineObserver == Min(ObserverIds)

\* Controller::handle_play up to the return of engine.play().
HandlePlay ==
    /\ Len(dispatched) < MaxDispatched
    /\ Play

\* Controller::handle_stop up to the join inside engine.stop().
HandleStop ==
    /\ Len(dispatched) < MaxDispatched
    /\ Stop

\* The rest of the handler: the engine call has returned, the event is
\* dispatched.
HandlerDispatch ==
    /\ ctl.pc = "returned"
    /\ ctl.op \in {"play", "stop"}
    /\ dispatch(IF ctl.op = "play" THEN PlaybackStarted ELSE PlaybackStopped)
    /\ ctl' = CtlIdle
    /\ UNCHANGED <<playing, playback_thread, clock_source, thr, proj_readers,
                   out_lock, received, caller, stop_returned>>
    /\ UNCHANGED <<timelineVars, schedulerVars, tempoVars, outputVars>>
    /\ UNCHANGED <<command_queue, senders_open, running, control_loop, handled,
                   receivers, rx_open, active_timeline>>

\* let _ = event_sender.send(PlaybackPositionChanged { position }): the
\* event joins the observer's channel while its receiver is alive.
ThreadPublishTo(t) ==
    /\ thr[t].pc = "publish"
    /\ Len(inbox[EngineObserver]) < MaxInbox
    /\ thr' = [thr EXCEPT ![t].pc = "generate"]
    /\ inbox' = IF rx_open[EngineObserver]
                   THEN [inbox EXCEPT ![EngineObserver] =
                            Append(@, PlaybackPositionChanged(thr[t].current_position))]
                   ELSE inbox
    /\ UNCHANGED <<playing, playback_thread, clock_source, proj_readers,
                   out_lock, received, ctl, caller, stop_returned>>
    /\ UNCHANGED <<timelineVars, schedulerVars, tempoVars, outputVars>>
    /\ UNCHANGED <<command_queue, senders_open, running, control_loop, handled,
                   receivers, rx_open, dispatched, active_timeline>>

SessionThreadStep(t) ==
    \/ ThreadCheck(t)
    \/ ThreadReadProject(t)
    \/ ThreadPublishTo(t)
    \/ ThreadGenerate(t)
    \/ ThreadLockOutput(t)
    \/ ThreadSend(t)
    \/ ThreadUnlockOutput(t)
    \/ ThreadSleep(t)

SessionNext ==
    \/ AddReceiver
    \/ HandlePlay
    \/ HandleStop
    \/ Join
    \/ HandlerDispatch
    \/ \E t \in ThreadIds : SessionThreadStep(t)

SpecSession == Init /\ [][SessionNext]_vars

\* The hub's events among those of a channel, in order.
HubEventsOf(box) == SelectSeq(box, LAMBDA e : e.type # "PlaybackPositionChanged")

\* The observer was registered before the first dispatch: it holds every
\* event the hub has dispatched.
SeesHub(o) == o \in Registered /\ HubEventsOf(inbox[o]) = dispatched

\* The last hub event before place i of the channel is PlaybackStarted.
StartedBefore(box, i) ==
    \E j \in 1..(i - 1) :
        /\ box[j] = PlaybackStarted
        /\ \A k \in (j + 1)..(i - 1) : box[k].type = "PlaybackPositionChanged"

\* C38: in the channel of an observer that receives the hub's events and
\* the playback loop's, every PlaybackPositionChanged comes after the
\* PlaybackStarted of its session and before the PlaybackStopped that
\* follows it.
C38_SessionBracketed ==
    SeesHub(EngineObserver) =>
        \A i \in DOMAIN inbox[EngineObserver] :
            inbox[EngineObserver][i].type = "PlaybackPositionChanged" =>
                StartedBefore(inbox[EngineObserver], i)

\* The closing half of C38: when PlaybackStopped is dispatched no playback
\* thread is left to publish, and none publishes until play() is called.
C38_StoppedAfterLast ==
    /\ [][dispatched' = Append(dispatched, PlaybackStopped) => Live = {}]_vars
    /\ [](\A t \in ThreadIds : thr[t].pc = "publish" => playback_thread = t \/ ctl.pc = "join")

\* No container id has been passed to add_container twice: every call has
\* stored a new container.
AddedOnce == adds = Cardinality(DOMAIN containers)

\* The places of the position indices that hold the id.
PlacesOf(tc, cid) ==
    UNION {{<<t, pos>> : pos \in KeysOf(tc[t], cid)} : t \in DOMAIN tc}

\* C39: when no container id was added twice, every entry pos -> id of a
\* track's position index has containers[id].position = pos, and no id
\* stands under two keys or in the indices of two tracks.
C39_IndexConsistent ==
    AddedOnce =>
        /\ IndexAgrees(track_containers, containers)
        /\ \A cid \in ContainerIds :
              Cardinality(PlacesOf(track_containers, cid)) <= 1

\* C39 witness: two containers were added, each once, and one of them has
\* just been moved to another position.
C39_Witness ==
    /\ AddedOnce
    /\ Cardinality(DOMAIN containers) >= 2
    /\ outcome.op = "move_container"
    /\ outcome.ret
    /\ outcome.position # outcome.old_position
    /\ PlacesOf(track_containers, outcome.id) = {<<outcome.track, outcome.position>>}

\* What get_events returns for a range, on the scheduler as it is.
EventsIn(start, end) == GetEvents(scheduled_events, start, end)

\* C40: for a <= b <= c, get_events(a, b) followed by get_events(b, c) is
\* get_events(a, c), which holds each event scheduled in [a, c) once;
\* get_events leaves the scheduler as it was; and after clear() every
\* get_events returns the empty sequence.
C40_WindowsCompose ==
    /\ [](IsGetEvents /\ outcome.start <= outcome.end =>
             /\ ~outcome.ret.panicked
             /\ Len(outcome.ret.result) =
                   Len(SelectSeq(schedule_calls,
                                 LAMBDA c : outcome.start <= c.position
                                              /\ c.position < outcome.end))
             /\ \A b \in outcome.start..outcome.end :
                   /\ ~EventsIn(outcome.start, b).panicked
                   /\ ~EventsIn(b, outcome.end).panicked
                   /\ EventsIn(outcome.start, b).result \o EventsIn(b, outcome.end).result
                         = outcome.ret.result)
    /\ [][(outcome'.op = "get_events" /\ outcome.op # "get_events") =>
             UNCHANGED scheduled_events]_vars
    /\ [](outcome.op = "clear" =>
             /\ scheduled_events = EmptyMap
             /\ \A a \in RangeBounds : \A b \in RangeBounds :
                   a <= b => EventsIn(a, b) = [panicked |-> FALSE, result |-> <<>>])

\* C40 witness: a query over a range has returned events from both sides of
\* a position inside the range, one of them scheduled at that position.
C40_Witness ==
    /\ IsGetEvents
    /\ \E b \in RangeBounds :
          /\ outcome.start < b /\ b < outcome.end
          /\ CallsAt(b) # <<>>
          /\ EventsIn(outcome.start, b).result # <<>>
          /\ Len(outcome.ret.result) > Len(EventsIn(outcome.start, b).result)

=============================================================================
